---- MODULE Spec2Model ----
(***************************************************************************)
(* The shopping concierge: the readline front end (index.ts), the          *)
(* ShoppingAgent tool-orchestration loop (agent.ts, kept at the end of     *)
(* ARCHITECTURE.md) and the backend operations over the session state      *)
(* (tools.ts, data.ts).                                                    *)
(*                                                                         *)
(* Optional values (T | undefined | null) are sequences of length <= 1.    *)
(* Text is kept structured: a request is a sequence of characters, every   *)
(* other text is a record naming the template and the values put into it.  *)
(***************************************************************************)
EXTENDS Integers, Sequences, FiniteSets, TLC

\* ------------------------------------------------------------------------
\* Bounds of the model
\* ------------------------------------------------------------------------
\* requests accepted by processRequest in one session
MaxRuns == 2
\* Decision Function calls answered (returned or thrown) in one session
MaxCalls == 11
\* largest absolute quantity of a cart line
MaxQty == 2
\* largest quantity of a cart line filled through the loop
MaxLoopQty == 1
\* orders placed in one session
MaxOrders == 1
\* agent.run invocations that can be in flight together
MaxInFlight == 2
\* Decision Function calls answered in one session of SpecContext
MaxCtxCalls == 4
\* Decision Function calls answered in one session of SpecQuantity
MaxQtyCalls == 3
\* Decision Function calls answered in one session of SpecCheckout
MaxOrderCalls == 5
\* Decision Function calls answered in one session of SpecSearch
MaxSearchCalls == 3
\* Decision Function calls answered in one session of SpecLookup
MaxLookupCalls == 4
\* Decision Function calls answered in one session of SpecOverlap
\* Decision Function calls answered in one session of SpecPurchase
MaxPurchaseCalls == 4
\* calls on which the Decision Function may ask for another iteration, in
\* one session of SpecLive
MaxLiveCalls == 4
MaxOverlapCalls == 20
\* backend functions called in one session of SpecBackend
MaxBackendCalls == 4

\* ------------------------------------------------------------------------
\* Program constants
\* ------------------------------------------------------------------------
maxIterations == 10
maxHistoryLength == 20
maxRetries == 3
retryDelay == 1000

None == <<>>
Some(x) == <<x>>

\* ------------------------------------------------------------------------
\* data.ts: the catalog (two products stand for the fifteen of mockData)
\* ------------------------------------------------------------------------
searchResults == << [id |-> "USB001", title |-> "Anker USB Cable", price |-> 3],
                    [id |-> "USB002", title |-> "Belkin USB Cable", price |-> 5] >>

ProductIds == { searchResults[i].id : i \in 1..Len(searchResults) }

productDetails == [ id \in ProductIds |->
    LET i == CHOOSE j \in 1..Len(searchResults) : searchResults[j].id = id
    IN  searchResults[i] ]

\* words of the lowercased title and description that search terms hit
titleWords == [ id \in ProductIds |->
    IF id = "USB001" THEN {"anker", "usb", "cable"} ELSE {"belkin", "usb", "cable"} ]

descriptionWords == [ id \in ProductIds |->
    IF id = "USB001" THEN {"charging"} ELSE {"braided"} ]

SEARCH_ALIASES == [ key \in {"cables", "charger"} |->
    IF key = "cables" THEN {"usb", "cable"} ELSE {"usb", "cable", "charging"} ]

\* ------------------------------------------------------------------------
\* Helpers for arrays
\* ------------------------------------------------------------------------
RECURSIVE reduceTotal(_)
\* items.reduce((sum, item) => sum + item.price * item.quantity, 0)
reduceTotal(items) ==
    IF items = <<>> THEN 0
    ELSE reduceTotal(SubSeq(items, 1, Len(items) - 1))
         + items[Len(items)].price * items[Len(items)].quantity

\* Array.prototype.findIndex on productId, 0 for "not found" (-1 in JS)
findIndex(items, productId) ==
    IF \E i \in 1..Len(items) : items[i].productId = productId
    THEN CHOOSE i \in 1..Len(items) :
            /\ items[i].productId = productId
            /\ \A j \in 1..(i - 1) : items[j].productId # productId
    ELSE 0

\* Array.prototype.indexOf on an array of ids, 0 for "not found"
indexOf(ids, productId) ==
    IF \E i \in 1..Len(ids) : ids[i] = productId
    THEN CHOOSE i \in 1..Len(ids) :
            /\ ids[i] = productId
            /\ \A j \in 1..(i - 1) : ids[j] # productId
    ELSE 0

\* Array.prototype.splice(index, 1)
splice(arr, index) ==
    SubSeq(arr, 1, index - 1) \o SubSeq(arr, index + 1, Len(arr))

\* Array.prototype.slice(-n)
sliceLast(arr, n) ==
    IF Len(arr) <= n THEN arr ELSE SubSeq(arr, Len(arr) - n + 1, Len(arr))

SelectIds(arr, Test(_)) ==
    LET F[i \in 0..Len(arr)] ==
          IF i = 0 THEN <<>>
          ELSE IF Test(arr[i]) THEN Append(F[i - 1], arr[i]) ELSE F[i - 1]
    IN  F[Len(arr)]

inCart(cart, id) == \E i \in 1..Len(cart.items) : cart.items[i].productId = id
inWishlist(wishlist, id) == \E i \in 1..Len(wishlist.items) : wishlist.items[i] = id

\* ------------------------------------------------------------------------
\* tools.ts: outcomes.  A handler either returns (ok) or throws (error);
\* st is the session state [cart, wishlist, orders] it leaves behind.
\* ------------------------------------------------------------------------
Returned(st, result) == [ok |-> TRUE, error |-> None, result |-> result, st |-> st]
Thrown(st, msg, arg) ==
    [ok |-> FALSE, error |-> Some([msg |-> msg, arg |-> arg]), result |-> None, st |-> st]

\* an optional string argument as it prints inside a message
Shown(opt) == IF opt = None THEN "undefined" ELSE opt[1]

\* mockData.productDetails is an object literal: besides the catalog ids it
\* answers, with a value that is truthy and has no product fields, to the
\* property names every object inherits.  Only getProductDetails is given
\* such a name in the specifications below.
InheritedKeys == { "constructor" }

Known(optId) == optId # None /\ optId[1] \in ProductIds

withStatus(st, p) ==
    [id |-> p.id, title |-> p.title, price |-> p.price,
     inCart |-> inCart(st.cart, p.id), inWishlist |-> inWishlist(st.wishlist, p.id)]

\* ------------------------------------------------------------------------
\* tools.ts: product search and discovery
\* ------------------------------------------------------------------------
\* the search term with the aliases of every key it contains
expandedTermsForTitle(searchLower) ==
    {searchLower} \cup UNION { SEARCH_ALIASES[key] :
                                 key \in {k \in DOMAIN SEARCH_ALIASES : k = searchLower} }

searchMatches(searchLower, p) ==
    \/ expandedTermsForTitle(searchLower) \cap titleWords[p.id] # {}
    \/ searchLower \in descriptionWords[p.id]

\* results.sort(cmp) on the (at most two) hits: stable, swaps only when cmp > 0
sortBy(results, key) ==
    IF Len(results) = 2 /\
       \/ key = "price_asc" /\ results[1].price > results[2].price
       \/ key = "price_desc" /\ results[1].price < results[2].price
    THEN <<results[2], results[1]>>
    ELSE results

\* filters: [minPrice, maxPrice: optional number, sortBy: optional key]
searchProducts(st, searchTerm, filters) ==
    IF searchTerm = None
    THEN Thrown(st, "TypeError: cannot read toLowerCase of undefined", "searchTerm")
    ELSE
    LET hit(p) == /\ searchMatches(searchTerm[1], p)
                  /\ filters = None \/ filters[1].minPrice = None
                        \/ p.price >= filters[1].minPrice[1]
                  /\ filters = None \/ filters[1].maxPrice = None
                        \/ p.price <= filters[1].maxPrice[1]
        hits == SelectIds(searchResults, hit)
        sorted == IF filters # None /\ filters[1].sortBy # None
                  THEN sortBy(hits, filters[1].sortBy[1]) ELSE hits
    IN  Returned(st, [ i \in 1..Len(sorted) |-> withStatus(st, sorted[i]) ])

\* { ...productDetails, inCart, inWishlist }: for an inherited name the
\* spread copies nothing, id and title read as undefined
getProductDetails(st, productId) ==
    IF productId # None /\ productId[1] \in InheritedKeys
    THEN Returned(st, [id |-> "undefined", title |-> "undefined",
                       inCart |-> inCart(st.cart, productId[1]),
                       inWishlist |-> inWishlist(st.wishlist, productId[1])])
    ELSE IF ~Known(productId)
    THEN Thrown(st, "Product with ID not found", Shown(productId))
    ELSE Returned(st, withStatus(st, productDetails[productId[1]]))

getProductReviews(st, productId) ==
    IF ~Known(productId)
    THEN Thrown(st, "No reviews found for product ID", Shown(productId))
    ELSE Returned(st, [reviewsOf |-> productId[1]])

compareProducts(st, productIds) ==
    LET found == SelectIds(productIds, LAMBDA id : id \in ProductIds)
    IN  IF found = <<>>
        THEN Thrown(st, "No valid products found to compare", "")
        ELSE Returned(st, [ i \in 1..Len(found) |-> withStatus(st, productDetails[found[i]]) ])

getRecommendations(st, productId, limit) ==
    IF ~Known(productId)
    THEN Thrown(st, "Product not found", Shown(productId))
    ELSE
    LET product == productDetails[productId[1]]
        near(p) == /\ p.id # product.id
                   \* Math.abs(p.price - product.price) <= product.price * 0.5
                   /\ 2 * (IF p.price >= product.price THEN p.price - product.price
                           ELSE product.price - p.price) <= product.price
        recs == SelectIds(searchResults, near)
        \* slice(0, limit): a negative limit counts from the end
        cut == SubSeq(recs, 1, IF limit >= Len(recs) THEN Len(recs)
                               ELSE IF limit >= 0 THEN limit
                               ELSE IF Len(recs) + limit > 0 THEN Len(recs) + limit ELSE 0)
    IN  Returned(st, [ i \in 1..Len(cut) |-> withStatus(st, cut[i]) ])

\* ------------------------------------------------------------------------
\* tools.ts: shopping cart
\* ------------------------------------------------------------------------
withCart(st, items) ==
    [st EXCEPT !.cart = [items |-> items, total |-> reduceTotal(items)]]

cartResult(msg, arg, st) == [success |-> TRUE, message |-> [msg |-> msg, arg |-> arg],
                             cart |-> st.cart]

\* variant: a line is pushed even when the product has one already
addToCart_alwaysPushes(st, productId, quantity) ==
    IF ~Known(productId)
    THEN Thrown(st, "Product with ID not found", Shown(productId))
    ELSE
    LET product == productDetails[productId[1]]
        items == Append(st.cart.items,
                        [productId |-> productId[1], title |-> product.title,
                         price |-> product.price, quantity |-> quantity])
        st2 == withCart(st, items)
    IN  Returned(st2, cartResult("Added to cart", product.title, st2))

addToCart(st, productId, quantity) ==
    IF ~Known(productId)
    THEN Thrown(st, "Product with ID not found", Shown(productId))
    ELSE
    LET product == productDetails[productId[1]]
        idx == findIndex(st.cart.items, productId[1])
        items == IF idx # 0
                 THEN [st.cart.items EXCEPT ![idx].quantity = @ + quantity]
                 ELSE Append(st.cart.items,
                             [productId |-> productId[1], title |-> product.title,
                              price |-> product.price, quantity |-> quantity])
        st2 == withCart(st, items)
    IN  Returned(st2, cartResult("Added to cart", product.title, st2))

\* variant: the line is removed and the total is left as it was
removeFromCart_keepsTotal(st, productId) ==
    LET itemIndex == IF productId = None THEN 0
                     ELSE findIndex(st.cart.items, productId[1])
    IN  IF itemIndex = 0
        THEN Thrown(st, "Product is not in your cart", Shown(productId))
        ELSE LET st2 == [st EXCEPT !.cart.items = splice(@, itemIndex)]
             IN  Returned(st2, cartResult("Removed from cart",
                                          st.cart.items[itemIndex].title, st2))

removeFromCart(st, productId) ==
    LET itemIndex == IF productId = None THEN 0
                     ELSE findIndex(st.cart.items, productId[1])
    IN  IF itemIndex = 0
        THEN Thrown(st, "Product is not in your cart", Shown(productId))
        ELSE LET st2 == withCart(st, splice(st.cart.items, itemIndex))
             IN  Returned(st2, cartResult("Removed from cart",
                                          st.cart.items[itemIndex].title, st2))

updateCartQuantity(st, productId, quantity) ==
    LET idx == IF productId = None THEN 0 ELSE findIndex(st.cart.items, productId[1])
    IN  IF idx = 0
        THEN Thrown(st, "Product is not in your cart", Shown(productId))
        ELSE IF quantity <= 0
        THEN removeFromCart(st, productId)
        ELSE LET st2 == withCart(st, [st.cart.items EXCEPT ![idx].quantity = quantity])
             IN  Returned(st2, cartResult("Updated quantity", productId[1], st2))

viewCart(st) == Returned(st, st.cart)

clearCart(st) ==
    Returned([st EXCEPT !.cart = [items |-> <<>>, total |-> 0]],
             [success |-> TRUE, message |-> [msg |-> "Cart has been cleared", arg |-> ""]])

\* ------------------------------------------------------------------------
\* tools.ts: wishlist
\* ------------------------------------------------------------------------
wishResult(msg, arg, st) == [success |-> TRUE, message |-> [msg |-> msg, arg |-> arg],
                             wishlist |-> st.wishlist.items]

addToWishlist(st, productId) ==
    IF ~Known(productId)
    THEN Thrown(st, "Product with ID not found", Shown(productId))
    ELSE IF inWishlist(st.wishlist, productId[1])
    THEN Returned(st, wishResult("Already in your wishlist",
                                 productDetails[productId[1]].title, st))
    ELSE LET st2 == [st EXCEPT !.wishlist.items = Append(@, productId[1])]
         IN  Returned(st2, wishResult("Added to wishlist",
                                      productDetails[productId[1]].title, st2))

removeFromWishlist(st, productId) ==
    LET index == IF productId = None THEN 0 ELSE indexOf(st.wishlist.items, productId[1])
    IN  IF index = 0
        THEN Thrown(st, "Product is not in your wishlist", Shown(productId))
        ELSE LET st2 == [st EXCEPT !.wishlist.items = splice(@, index)]
             IN  Returned(st2, wishResult("Removed from wishlist",
                    IF Known(productId) THEN productDetails[productId[1]].title
                    ELSE Shown(productId), st2))

viewWishlist(st) ==
    LET known == SelectIds(st.wishlist.items, LAMBDA id : id \in ProductIds)
    IN  Returned(st, [ i \in 1..Len(known) |->
                         [withStatus(st, productDetails[known[i]]) EXCEPT !.inWishlist = TRUE] ])

moveWishlistToCart(st, productId) ==
    IF productId = None \/ ~inWishlist(st.wishlist, productId[1])
    THEN Thrown(st, "Product is not in your wishlist", Shown(productId))
    ELSE LET removed == removeFromWishlist(st, productId)
             added == addToCart(removed.st, productId, 1)
         IN  IF ~added.ok THEN added
             ELSE Returned(added.st, [success |-> TRUE,
                    message |-> [msg |-> "Moved from wishlist to cart", arg |-> productId[1]]])

\* ------------------------------------------------------------------------
\* tools.ts: purchase and orders
\* ------------------------------------------------------------------------
\* variant: the order is recorded before the product id is validated
purchaseProduct_recordsFirst(st, productId, quantity) ==
    LET title == IF Known(productId) THEN productDetails[productId[1]].title ELSE ""
        price == IF Known(productId) THEN productDetails[productId[1]].price ELSE 0
        order == [items |-> << [productId |-> Shown(productId), title |-> title,
                                price |-> price, quantity |-> quantity] >>,
                  total |-> price * quantity,
                  status |-> "confirmed"]
        st2 == [st EXCEPT !.orders = Append(@, order)]
    IN  IF ~Known(productId)
        THEN Thrown(st2, "Product with ID not found", Shown(productId))
        ELSE Returned(st2, order)

\* variant: a direct purchase empties the cart as checkout does
purchaseProduct_emptiesCart(st, productId, quantity) ==
    IF ~Known(productId)
    THEN Thrown(st, "Product with ID not found", Shown(productId))
    ELSE LET product == productDetails[productId[1]]
             order == [items |-> << [productId |-> productId[1], title |-> product.title,
                                     price |-> product.price, quantity |-> quantity] >>,
                       total |-> product.price * quantity,
                       status |-> "confirmed"]
         IN  Returned([st EXCEPT !.orders = Append(@, order),
                                 !.cart = [items |-> <<>>, total |-> 0]], order)

purchaseProduct(st, productId, quantity) ==
    IF ~Known(productId)
    THEN Thrown(st, "Product with ID not found", Shown(productId))
    ELSE LET product == productDetails[productId[1]]
             order == [items |-> << [productId |-> productId[1], title |-> product.title,
                                     price |-> product.price, quantity |-> quantity] >>,
                       total |-> product.price * quantity,
                       status |-> "confirmed"]
         IN  Returned([st EXCEPT !.orders = Append(@, order)], order)

\* variant: the cart is not cleared after the order is recorded
checkout_keepsCart(st) ==
    IF Len(st.cart.items) = 0
    THEN Thrown(st, "Your cart is empty. Add items before checkout.", "")
    ELSE LET order == [items |-> st.cart.items, total |-> st.cart.total,
                       status |-> "confirmed"]
         IN  Returned([st EXCEPT !.orders = Append(@, order)], order)

\* variant: the new order takes the place of the order history
checkout_replacesOrders(st) ==
    IF Len(st.cart.items) = 0
    THEN Thrown(st, "Your cart is empty. Add items before checkout.", "")
    ELSE LET order == [items |-> st.cart.items, total |-> st.cart.total,
                       status |-> "confirmed"]
         IN  Returned([st EXCEPT !.orders = << order >>,
                                 !.cart = [items |-> <<>>, total |-> 0]], order)

checkout(st) ==
    IF Len(st.cart.items) = 0
    THEN Thrown(st, "Your cart is empty. Add items before checkout.", "")
    ELSE LET order == [items |-> st.cart.items, total |-> st.cart.total,
                       status |-> "confirmed"]
         IN  Returned([st EXCEPT !.orders = Append(@, order),
                                 !.cart = [items |-> <<>>, total |-> 0]], order)

viewOrders(st) == Returned(st, st.orders)

\* ------------------------------------------------------------------------
\* agent.ts: ShoppingAgent.executeTool
\* ------------------------------------------------------------------------
\* A parameter payload is JSON text: raw names the text, parsed is the object
\* JSON.parse yields, or None when the text is not JSON.
NoParams == [productId |-> None, quantity |-> None, searchTerm |-> None,
             filters |-> None, productIds |-> None, limit |-> None]

Json(raw, obj) == [raw |-> raw, parsed |-> Some(obj)]
NotJson(raw) == [raw |-> raw, parsed |-> None]

\* variant: a missing number is read as 0
orDefault_missingIsZero(opt, fallback) == IF opt = None THEN 0 ELSE opt[1]

\* (value as number) || fallback : undefined and 0 are falsy
orDefault(opt, fallback) == IF opt = None \/ opt[1] = 0 THEN fallback ELSE opt[1]

contextOf(product) == Some([productId |-> product.id, title |-> product.title])

\* variant: a search never records a product context
searchContext_never(out, ctx) == ctx

\* variant: the first hit of any non-empty result becomes the context
searchContext_firstHit(out, ctx) ==
    IF out.ok /\ Len(out.result) >= 1 THEN contextOf(out.result[1]) ELSE ctx

\* if (results.length === 1) this.currentProductContext = { ... results[0] }
searchContext(out, ctx) ==
    IF out.ok /\ Len(out.result) = 1 THEN contextOf(out.result[1]) ELSE ctx

\* The outcome of the dispatch, the product context it leaves and the
\* backend handlers it called.
Dispatched(out, ctx, handlers) == [out |-> out, ctx |-> ctx, handlers |-> handlers]

\* variant: the switch has a case for ClearCart
unknownTool_routesClearCart(st, ctx, tool) ==
    IF tool = "ClearCart"
    THEN Dispatched(clearCart(st), ctx, <<"clearCart">>)
    ELSE Dispatched(Thrown(st, "Unknown tool", tool), ctx, <<>>)

\* default: throw new Error(`Unknown tool: ${tool}`)
unknownTool(st, ctx, tool) ==
    Dispatched(Thrown(st, "Unknown tool", tool), ctx, <<>>)

executeTool(st, ctx, tool, parametersJson) ==
    IF parametersJson.parsed = None
    THEN Dispatched(Thrown(st, "Invalid parameters format", parametersJson.raw), ctx, <<>>)
    ELSE
    LET params == parametersJson.parsed[1] IN
    CASE tool = "SearchProducts" ->
           LET out == searchProducts(st, params.searchTerm, params.filters)
           IN  Dispatched(out, searchContext(out, ctx), <<"searchProducts">>)
      [] tool = "GetProductDetails" ->
           LET out == getProductDetails(st, params.productId)
           IN  Dispatched(out, IF out.ok THEN contextOf(out.result) ELSE ctx,
                          <<"getProductDetails">>)
      [] tool = "GetProductReviews" ->
           Dispatched(getProductReviews(st, params.productId), ctx, <<"getProductReviews">>)
      [] tool = "PurchaseProduct" ->
           Dispatched(purchaseProduct(st, params.productId, orDefault(params.quantity, 1)),
                      ctx, <<"purchaseProduct">>)
      [] tool = "AddToCart" ->
           Dispatched(addToCart(st, params.productId, orDefault(params.quantity, 1)),
                      ctx, <<"addToCart">>)
      [] tool = "RemoveFromCart" ->
           Dispatched(removeFromCart(st, params.productId), ctx, <<"removeFromCart">>)
      [] tool = "ViewCart" ->
           Dispatched(viewCart(st), ctx, <<"viewCart">>)
      [] tool = "AddToWishlist" ->
           Dispatched(addToWishlist(st, params.productId), ctx, <<"addToWishlist">>)
      [] tool = "RemoveFromWishlist" ->
           Dispatched(removeFromWishlist(st, params.productId), ctx, <<"removeFromWishlist">>)
      [] tool = "ViewWishlist" ->
           Dispatched(viewWishlist(st), ctx, <<"viewWishlist">>)
      [] tool = "CompareProducts" ->
           IF params.productIds = None
           THEN Dispatched(Thrown(st, "TypeError: productIds is not iterable", "productIds"),
                           ctx, <<"compareProducts">>)
           ELSE Dispatched(compareProducts(st, params.productIds[1]), ctx,
                           <<"compareProducts">>)
      [] tool = "Checkout" ->
           Dispatched(checkout(st), ctx, <<"checkout">>)
      [] tool = "ViewOrders" ->
           Dispatched(viewOrders(st), ctx, <<"viewOrders">>)
      [] tool = "GetRecommendations" ->
           Dispatched(getRecommendations(st, params.productId, orDefault(params.limit, 3)),
                      ctx, <<"getRecommendations">>)
      [] OTHER ->
           unknownTool(st, ctx, tool)

\* ------------------------------------------------------------------------
\* Text: a request is a sequence of characters
\* ------------------------------------------------------------------------
upperCase == <<"A","B","C","D","E","F","G","H","I","J","K","L","M",
               "N","O","P","Q","R","S","T","U","V","W","X","Y","Z">>
lowerCase == <<"a","b","c","d","e","f","g","h","i","j","k","l","m",
               "n","o","p","q","r","s","t","u","v","w","x","y","z">>

\* String.prototype.toLowerCase
toLowerCase(text) ==
    [ i \in 1..Len(text) |->
        IF \E k \in 1..26 : upperCase[k] = text[i]
        THEN lowerCase[CHOOSE k \in 1..26 : upperCase[k] = text[i]]
        ELSE text[i] ]

\* String.prototype.trim
trim(text) ==
    LET inked == { i \in 1..Len(text) : text[i] # " " }
    IN  IF inked = {} THEN <<>>
        ELSE SubSeq(text, CHOOSE i \in inked : \A j \in inked : i <= j,
                          CHOOSE i \in inked : \A j \in inked : i >= j)

\* String.prototype.includes
includes(text, phrase) ==
    \E i \in 1..(Len(text) - Len(phrase) + 1) :
        SubSeq(text, i, i + Len(phrase) - 1) = phrase

contextualPhrases == { <<"t", "h", "i", "s">>,
                       <<"i", "t">>,
                       <<"t", "h", "a", "t">>,
                       <<"t", "h", "e", " ", "p", "r", "o", "d", "u", "c", "t">>,
                       <<"t", "h", "i", "s", " ", "p", "r", "o", "d", "u", "c", "t">>,
                       <<"t", "h", "i", "s", " ", "i", "t", "e", "m">>,
                       <<"b", "u", "y", " ", "n", "o", "w">>,
                       <<"a", "d", "d", " ", "t", "o", " ", "c", "a", "r", "t">>,
                       <<"p", "u", "r", "c", "h", "a", "s", "e">> }

helpCommands == { <<"h", "e", "l", "p">>, <<"?">> }
cartCommands == { <<"c", "a", "r", "t">>, <<"v", "i", "e", "w", " ", "c", "a", "r", "t">>, <<"s", "h", "o", "w", " ", "c", "a", "r", "t">> }
wishlistCommands == { <<"w", "i", "s", "h", "l", "i", "s", "t">>, <<"s", "h", "o", "w", " ", "w", "i", "s", "h", "l", "i", "s", "t">>, <<"v", "i", "e", "w", " ", "w", "i", "s", "h", "l", "i", "s", "t">> }
ordersCommands == { <<"o", "r", "d", "e", "r", "s">>, <<"m", "y", " ", "o", "r", "d", "e", "r", "s">>, <<"o", "r", "d", "e", "r", " ", "h", "i", "s", "t", "o", "r", "y">> }
\* variant: "reset" is listed with the clear-cart literals
clearCartCommands_withReset == { <<"c", "l", "e", "a", "r", " ", "c", "a", "r", "t">>,
                                 <<"e", "m", "p", "t", "y", " ", "c", "a", "r", "t">>,
                                 <<"r", "e", "s", "e", "t">> }
clearCartCommands == { <<"c", "l", "e", "a", "r", " ", "c", "a", "r", "t">>, <<"e", "m", "p", "t", "y", " ", "c", "a", "r", "t">> }
\* variant: "reset" is missing from the literals
resetCommands_onlyClearHistory == { <<"c", "l", "e", "a", "r", " ", "h", "i", "s", "t", "o", "r", "y">> }
resetCommands == { <<"c", "l", "e", "a", "r", " ", "h", "i", "s", "t", "o", "r", "y">>, <<"r", "e", "s", "e", "t">> }
exitCommands == { <<"e", "x", "i", "t">>, <<"q", "u", "i", "t">>, <<"b", "y", "e">>, <<"q">>, <<":", "q">>, <<":", "w", "q">> }
clearScreenCommands == { <<"c", "l", "e", "a", "r">>, <<"c", "l", "s">> }

\* ------------------------------------------------------------------------
\* ui.ts and the agent's formatters.  Rendering is kept symbolic: a text is
\* [prefix, msg, arg], a response is [style, text, tools] where tools are
\* the formatted tool outputs printed before the text.
\* ------------------------------------------------------------------------
Text(prefix, msg, arg) == [prefix |-> prefix, msg |-> msg, arg |-> arg]

messageBox(message, type) == [style |-> type, text |-> Some(message), tools |-> <<>>]

\* formatToolResult: the block rendered for one tool result
formatToolResult(toolName, result) == [block |-> toolName]

\* formatToolResult throws: ui.productCard reads product.title.length of a
\* details result that has no title
formatThrows(toolName, result) ==
    toolName = "GetProductDetails" /\ result.title = "undefined"

formatError == Some([msg |-> "TypeError: cannot read length of undefined", arg |-> "title"])

formatFinalResponse(message, toolResults) ==
    [style |-> "final",
     text |-> IF message = "" THEN None ELSE Some(Text("", message, "")),
     tools |-> toolResults]

\* variant: the message is cut after its fixed part
errorMessage_withoutArgument(error) == [msg |-> error[1].msg, arg |-> ""]

\* error instanceof Error ? error.message : 'Unknown error'
errorMessage(error) == error[1]

\* ------------------------------------------------------------------------
\* Transcript entries
\* ------------------------------------------------------------------------
\* `User: ${enrichedRequest}`: the request and the context annotation, if any
UserEntry(userRequest, context) ==
    [kind |-> "User", text |-> userRequest, context |-> context]
\* `Agent Thought: ${response.thought}`
ThoughtEntry(thought) == [kind |-> "Agent Thought", thought |-> thought]
\* `Tool: ${tool}\nParameters: ${parameters}\nResult: ${JSON.stringify(result)}`
ToolEntry(tool, parametersJson) ==
    [kind |-> "Tool", tool |-> tool, parameters |-> parametersJson.raw]

\* ------------------------------------------------------------------------
\* State
\* ------------------------------------------------------------------------
VARIABLES
    dispatched,             \* the last operation dispatched on its own (SpecDispatch)
    agentReady,             \* ShoppingConcierge.agent is loaded
    isProcessing,           \* ShoppingConcierge.isProcessing
    exited,                 \* process.exit was called
    conversationHistory,    \* ShoppingAgent.conversationHistory
    currentProductContext,  \* ShoppingAgent.currentProductContext
    cart, wishlist, orders, \* data.ts session state
    frames,                 \* one processRequest/run activation per slot
    runs,                   \* requests accepted so far
    answered                \* Decision Function calls answered so far

vars == <<dispatched, agentReady, isProcessing, exited, conversationHistory,
          currentProductContext, cart, wishlist, orders, frames, runs, answered>>

Slots == 1..MaxInFlight

session == [cart |-> cart, wishlist |-> wishlist, orders |-> orders]

\* what the agent and the backend hold, for before/after comparisons
Snapshot == [history |-> conversationHistory, context |-> currentProductContext,
             session |-> session]

IdleFrame ==
    [pc |-> "idle",            \* idle | awaitDecision | returned | delay | failed
     userRequest |-> <<>>,
     attempts |-> 0,           \* processRequest: attempts
     iteration |-> 0,          \* run: iteration
     lastToolResults |-> <<>>, \* run: lastToolResults
     response |-> None,        \* what run returned and processRequest printed
     ended |-> "",             \* the return statement run left through
     call |-> None,            \* arguments of the pending DecideNextAction call
     invoked |-> 0,            \* times processRequest called run for this request
     dfCalls |-> 0,            \* DecideNextAction calls made by this run
     dispatches |-> 0,         \* executeTool calls made by this run
     handlerCalls |-> 0,       \* backend handler calls made by this run
     pre |-> None,             \* Snapshot when run was entered
     decision |-> None,        \* the last answer of DecideNextAction
     dispatchOk |-> "none",    \* none | ok | failed: the dispatch that answer caused
     dispatchError |-> None,   \* what that dispatch threw
     done |-> <<>>,            \* tools dispatched successfully by this run, in order
     delay |-> 0]              \* processRequest: pending retry delay (ms)

Init ==
    /\ dispatched = None
    /\ agentReady = FALSE
    /\ isProcessing = FALSE
    /\ exited = FALSE
    /\ conversationHistory = <<>>
    /\ currentProductContext = None
    /\ cart = [items |-> <<>>, total |-> 0]
    /\ wishlist = [items |-> <<>>]
    /\ orders = <<>>
    /\ frames = [s \in Slots |-> IdleFrame]
    /\ runs = 0
    /\ answered = 0

\* ------------------------------------------------------------------------
\* The lines a user may type, and what the string functions make of them
\* ------------------------------------------------------------------------
LINE_BLANK == <<" ", " ">>
LINE_CLS == <<"c", "l", "s">>
LINE_EXIT == <<"E", "x", "i", "t">>
LINE_HELP == <<"h", "e", "l", "p">>
LINE_CART == <<" ", "C", "a", "r", "t">>
LINE_WISHLIST == <<"w", "i", "s", "h", "l", "i", "s", "t">>
LINE_ORDERS == <<"m", "y", " ", "o", "r", "d", "e", "r", "s">>
LINE_CLEARCART == <<"c", "l", "e", "a", "r", " ", "c", "a", "r", "t">>
LINE_RESET == <<"R", "e", "s", "e", "t">>
LINE_BUYIT == <<"b", "u", "y", " ", "i", "t">>
LINE_FINDUSB == <<"f", "i", "n", "d", " ", "u", "s", "b">>
LINE_PURCHASEID == <<"P", "u", "r", "c", "h", "a", "s", "e", " ", "U", "S", "B", "0", "0", "2">>

AllLines == { LINE_BLANK, LINE_CLS, LINE_EXIT, LINE_HELP, LINE_CART, LINE_WISHLIST,
              LINE_ORDERS, LINE_CLEARCART, LINE_RESET, LINE_BUYIT, LINE_FINDUSB,
              LINE_PURCHASEID }

\* handleInput: input.trim()
trimmedOf == [ input \in AllLines |-> trim(input) ]
\* handleInput: trimmed.toLowerCase()
commandOf == [ input \in AllLines |-> toLowerCase(trimmedOf[input]) ]

Requests == { trimmedOf[input] : input \in AllLines }
\* variant: userRequest.trim() without toLowerCase()
lowerRequestOf_notLowered == [ userRequest \in Requests |-> trim(userRequest) ]

\* run: userRequest.toLowerCase().trim()
lowerRequestOf == [ userRequest \in Requests |-> trim(toLowerCase(userRequest)) ]

\* the model keeps cart quantities and the order history within its bounds
WithinBounds(st, maxQty) ==
    /\ \A i \in 1..Len(st.cart.items) :
          st.cart.items[i].quantity \in (0 - maxQty)..maxQty
    /\ Len(st.orders) <= MaxOrders

\* ------------------------------------------------------------------------
\* agent.ts: ShoppingAgent.run, from its entry to its first suspension
\* ------------------------------------------------------------------------
\* variant: the request has to be one of the phrases
needsContext_exact(lowerRequest) == lowerRequest \in contextualPhrases

needsContext(lowerRequest) ==
    \E phrase \in contextualPhrases : includes(lowerRequest, phrase)

needsContextOf == [ userRequest \in Requests |-> needsContext(lowerRequestOf[userRequest]) ]

\* the product ids as they read in a lowercased request
idText == [ id \in ProductIds |->
    IF id = "USB001" THEN <<"u", "s", "b", "0", "0", "1">>
    ELSE <<"u", "s", "b", "0", "0", "2">> ]

\* the request names a product id explicitly
namesProductOf == [ userRequest \in Requests |->
    \E id \in ProductIds : includes(lowerRequestOf[userRequest], idText[id]) ]

\* variant: the push uses userRequest instead of enrichedRequest
enrichment_dropped(userRequest, context) == None

\* variant: a request that names a product id is not annotated
enrichment_skipsExplicitIds(userRequest, context) ==
    IF needsContextOf[userRequest] /\ context # None /\ ~namesProductOf[userRequest]
    THEN context ELSE None

\* enrichedRequest: the annotation appended to the request, if any
enrichment(userRequest, context) ==
    IF needsContextOf[userRequest] /\ context # None THEN context ELSE None

\* variant: slice(0, maxHistoryLength) keeps the oldest entries
trimHistory_keepsOldest(history) ==
    IF Len(history) > maxHistoryLength
    THEN SubSeq(history, 1, maxHistoryLength) ELSE history

\* variant: slice(-(maxHistoryLength - 1)) drops one entry too many
trimHistory_oneShort(history) ==
    IF Len(history) > maxHistoryLength
    THEN sliceLast(history, maxHistoryLength - 1) ELSE history

trimHistory(history) ==
    IF Len(history) > maxHistoryLength
    THEN sliceLast(history, maxHistoryLength) ELSE history

\* run returns: processRequest prints the response and clears the busy flag
RunReturns(s, frame, response, ended) ==
    /\ frames' = [frames EXCEPT ![s] =
                    [frame EXCEPT !.pc = "returned", !.response = Some(response),
                                  !.ended = ended, !.call = None]]
    /\ isProcessing' = FALSE

\* variant: every retry waits retryDelay, whatever the attempt
RunThrows_flatDelay(s, frame) ==
    LET attempts == frame.attempts + 1 IN
    IF attempts < maxRetries
    THEN /\ frames' = [frames EXCEPT ![s] =
                         [frame EXCEPT !.pc = "delay", !.attempts = attempts,
                                       !.call = None, !.delay = retryDelay]]
         /\ UNCHANGED isProcessing
    ELSE /\ frames' = [frames EXCEPT ![s] =
                         [frame EXCEPT !.pc = "failed", !.attempts = attempts,
                                       !.call = None, !.delay = 0]]
         /\ isProcessing' = FALSE

\* variant: giving up after maxRetries attempts leaves the busy flag set
RunThrows_staysBusy(s, frame) ==
    LET attempts == frame.attempts + 1 IN
    IF attempts < maxRetries
    THEN /\ frames' = [frames EXCEPT ![s] =
                         [frame EXCEPT !.pc = "delay", !.attempts = attempts,
                                       !.call = None, !.delay = retryDelay * attempts]]
         /\ UNCHANGED isProcessing
    ELSE /\ frames' = [frames EXCEPT ![s] =
                         [frame EXCEPT !.pc = "failed", !.attempts = attempts,
                                       !.call = None, !.delay = 0]]
         /\ UNCHANGED isProcessing

\* run throws: processRequest counts the attempt, then waits
\* retryDelay * attempts before the next one or gives up after maxRetries
RunThrows(s, frame) ==
    LET attempts == frame.attempts + 1 IN
    IF attempts < maxRetries
    THEN /\ frames' = [frames EXCEPT ![s] =
                         [frame EXCEPT !.pc = "delay", !.attempts = attempts,
                                       !.call = None, !.delay = retryDelay * attempts]]
         /\ UNCHANGED isProcessing
    ELSE /\ frames' = [frames EXCEPT ![s] =
                         [frame EXCEPT !.pc = "failed", !.attempts = attempts,
                                       !.call = None, !.delay = 0]]
         /\ isProcessing' = FALSE

\* variant: the call passes lowerRequest instead of userRequest
RunCallsDecide_lowerRequest(s, frame, history) ==
    frames' = [frames EXCEPT ![s] =
                 [frame EXCEPT !.pc = "awaitDecision",
                               !.iteration = @ + 1,
                               !.dfCalls = @ + 1,
                               !.call = Some([userRequest |-> lowerRequestOf[frame.userRequest],
                                              history |-> history])]]

\* run suspends in `await b.DecideNextAction(userRequest, history)`
RunCallsDecide(s, frame, history) ==
    frames' = [frames EXCEPT ![s] =
                 [frame EXCEPT !.pc = "awaitDecision",
                               !.iteration = @ + 1,
                               !.dfCalls = @ + 1,
                               !.call = Some([userRequest |-> frame.userRequest,
                                              history |-> history])]]

RunEnter(s, userRequest, attempts, invoked) ==
    LET lowerRequest == lowerRequestOf[userRequest]
        frame == [IdleFrame EXCEPT !.userRequest = userRequest,
                                   !.attempts = attempts,
                                   !.invoked = invoked,
                                   !.pre = Some(Snapshot)]
        seen(toolName) ==
            [style |-> "block", text |-> None,
             tools |-> << formatToolResult(toolName, None) >>]
        called == [frame EXCEPT !.handlerCalls = 1]
    IN
    IF lowerRequest \in helpCommands
    THEN /\ RunReturns(s, frame, [style |-> "help", text |-> None, tools |-> <<>>], "quick")
         /\ UNCHANGED <<conversationHistory, currentProductContext, cart, wishlist, orders>>
    ELSE IF lowerRequest \in cartCommands
    THEN /\ RunReturns(s, called, seen("ViewCart"), "quick")
         /\ UNCHANGED <<conversationHistory, currentProductContext, cart, wishlist, orders>>
    ELSE IF lowerRequest \in wishlistCommands
    THEN /\ RunReturns(s, called, seen("ViewWishlist"), "quick")
         /\ UNCHANGED <<conversationHistory, currentProductContext, cart, wishlist, orders>>
    ELSE IF lowerRequest \in ordersCommands
    THEN /\ RunReturns(s, called, seen("ViewOrders"), "quick")
         /\ UNCHANGED <<conversationHistory, currentProductContext, cart, wishlist, orders>>
    ELSE IF lowerRequest \in clearCartCommands
    THEN LET out == clearCart(session)
         IN  /\ RunReturns(s, called,
                           messageBox(Text("", out.result.message.msg, ""), "success"),
                           "quick")
             /\ cart' = out.st.cart
             /\ wishlist' = out.st.wishlist
             /\ orders' = out.st.orders
             /\ UNCHANGED <<conversationHistory, currentProductContext>>
    ELSE IF lowerRequest \in resetCommands
    THEN /\ conversationHistory' = <<>>
         /\ currentProductContext' = None
         /\ RunReturns(s, frame,
                       messageBox(Text("", "Conversation history cleared. Starting fresh!", ""),
                                  "success"),
                       "quick")
         /\ UNCHANGED <<cart, wishlist, orders>>
    ELSE LET entry == UserEntry(userRequest,
                                enrichment(userRequest, currentProductContext))
             history == trimHistory(Append(conversationHistory, entry))
         IN  /\ conversationHistory' = history
             \* while (iteration < maxIterations) with iteration = 0
             /\ IF 0 < maxIterations
                THEN /\ RunCallsDecide(s, frame, history)
                     /\ isProcessing' = TRUE
                ELSE RunReturns(s, frame,
                                messageBox(Text("", "need more information", ""), "warning"),
                                "ceiling")
             /\ UNCHANGED <<currentProductContext, cart, wishlist, orders>>

\* ------------------------------------------------------------------------
\* index.ts: ShoppingConcierge
\* ------------------------------------------------------------------------
\* main: `await app.init()` completes
InitAgent ==
    /\ ~exited /\ ~agentReady
    /\ agentReady' = TRUE
    /\ UNCHANGED <<dispatched, isProcessing, exited, conversationHistory,
                   currentProductContext, cart, wishlist, orders, frames, runs, answered>>

FreeSlot(s) ==
    /\ frames[s].pc \in {"idle", "returned", "failed"}
    /\ \A t \in Slots : t < s => frames[t].pc \notin {"idle", "returned", "failed"}

\* handleInput: empty input only prompts, clear/cls redraws the banner
LineNoRequest(input) ==
    /\ ~exited
    /\ trimmedOf[input] = <<>> \/ commandOf[input] \in clearScreenCommands
    /\ UNCHANGED <<dispatched, agentReady, isProcessing, exited, conversationHistory,
                   currentProductContext, cart, wishlist, orders, frames, runs, answered>>

\* handleInput: an exit command shuts the process down
LineExit(input) ==
    /\ ~exited
    /\ trimmedOf[input] # <<>> /\ commandOf[input] \in exitCommands
    /\ exited' = TRUE
    /\ UNCHANGED <<dispatched, agentReady, isProcessing, conversationHistory,
                   currentProductContext, cart, wishlist, orders, frames, runs, answered>>

IsRequest(input) ==
    /\ trimmedOf[input] # <<>>
    /\ commandOf[input] \notin exitCommands
    /\ commandOf[input] \notin clearScreenCommands

\* processRequest: refused while busy or before the agent is loaded
LineRejected(input) ==
    /\ ~exited
    /\ IsRequest(input)
    /\ isProcessing \/ ~agentReady
    /\ UNCHANGED <<dispatched, agentReady, isProcessing, exited, conversationHistory,
                   currentProductContext, cart, wishlist, orders, frames, runs, answered>>

\* processRequest: accepts the request and makes the first call of agent.run
LineAccepted(input) ==
    /\ ~exited
    /\ IsRequest(input)
    /\ ~isProcessing /\ agentReady
    /\ runs < MaxRuns
    /\ \E s \in Slots :
          /\ FreeSlot(s)
          /\ RunEnter(s, trimmedOf[input], 0, 1)
    /\ runs' = runs + 1
    /\ UNCHANGED <<dispatched, agentReady, exited, answered>>

\* ------------------------------------------------------------------------
\* agent.ts: ShoppingAgent.run, one turn of the loop: from the answer of
\* DecideNextAction to the next suspension or to the return
\* ------------------------------------------------------------------------
\* variant: the error path also forgets the product context
DecisionThrows_resets(s) ==
    LET frame == frames[s] IN
    /\ ~exited
    /\ frame.pc = "awaitDecision"
    /\ answered < MaxCalls
    /\ answered' = answered + 1
    /\ RunReturns(s, frame,
                  messageBox(Text("Failed to process request: ", "decision error", ""),
                             "error"),
                  "decisionFailed")
    /\ currentProductContext' = None
    /\ UNCHANGED <<dispatched, agentReady, exited, conversationHistory,
                   cart, wishlist, orders, runs>>

\* b.DecideNextAction threw
DecisionThrows(s) ==
    LET frame == frames[s] IN
    /\ ~exited
    /\ frame.pc = "awaitDecision"
    /\ answered < MaxCalls
    /\ answered' = answered + 1
    /\ RunReturns(s, frame,
                  messageBox(Text("Failed to process request: ", "decision error", ""),
                             "error"),
                  "decisionFailed")
    /\ UNCHANGED <<dispatched, agentReady, exited, conversationHistory,
                   currentProductContext, cart, wishlist, orders, runs>>

\* variant: while (iteration <= maxIterations)
NextTurn_offByOne(s, frame, history) ==
    IF frame.iteration <= maxIterations
    THEN /\ RunCallsDecide(s, frame, history)
         /\ UNCHANGED isProcessing
    ELSE RunReturns(s, frame,
                    messageBox(Text("", "need more information", ""), "warning"),
                    "ceiling")

\* variant: running out of iterations is reported as an error
NextTurn_ceilingIsError(s, frame, history) ==
    IF frame.iteration < maxIterations
    THEN /\ RunCallsDecide(s, frame, history)
         /\ UNCHANGED isProcessing
    ELSE RunReturns(s, frame,
                    messageBox(Text("Failed to process request: ", "too many iterations", ""),
                               "error"),
                    "ceiling")

\* after the loop body: `while (iteration < maxIterations)` again
NextTurn(s, frame, history) ==
    IF frame.iteration < maxIterations
    THEN /\ RunCallsDecide(s, frame, history)
         /\ UNCHANGED isProcessing
    ELSE RunReturns(s, frame,
                    messageBox(Text("", "need more information", ""), "warning"),
                    "ceiling")

\* variant: the catch block rethrows to processRequest
ToolFailed_rethrows(s, frame, error) == RunThrows(s, frame)

\* variant: the catch block records nothing and lets the loop go on
ToolFailed_continues(s, frame, error) ==
    NextTurn(s, frame, Append(conversationHistory, ThoughtEntry(frame.decision[1].thought)))

\* catch (error) around the tool execution
ToolFailed(s, frame, error) ==
    RunReturns(s, frame,
               messageBox(Text("Tool execution failed: ", errorMessage(error).msg,
                               errorMessage(error).arg), "error"),
               "toolFailed")

\* variant: the final message is looked at only by the termination check
returnsAfterTool_never(response) == FALSE

\* if (response.final_response) after the tool result is recorded
returnsAfterTool(response) ==
    response.final_response # None /\ response.final_response[1] # ""

\* variant: only the sentinel stops the loop
stops_onlySentinel(response) == response.action.tool = "None"

\* if (!response.should_continue || response.action.tool === "None")
stops(response) == ~response.should_continue \/ response.action.tool = "None"

\* variant: the termination check always answers with the reasoning text
finalOrThought_alwaysThought(response) == response.thought

\* a final_response that is present and not empty (truthy)
finalOrThought(response) ==
    IF response.final_response # None /\ response.final_response[1] # ""
    THEN response.final_response[1] ELSE response.thought

\* the loop body from `thought` on, for the answer `response`
LoopTurn(s, response) ==
    LET frame == [frames[s] EXCEPT !.decision = Some(response),
                                   !.dispatchOk = "none",
                                   !.dispatchError = None]
        thought == Append(conversationHistory, ThoughtEntry(response.thought))
    IN
    /\ ~exited
    /\ frames[s].pc = "awaitDecision"
    /\ answered' = answered + 1
    /\ IF stops(response)
       THEN /\ conversationHistory' = thought
            /\ RunReturns(s, frame,
                    formatFinalResponse(finalOrThought(response), frame.lastToolResults),
                    "final")
            /\ UNCHANGED <<currentProductContext, cart, wishlist, orders>>
       ELSE
       LET done == executeTool(session, currentProductContext,
                               response.action.tool, response.action.parameters)
           tried == [frame EXCEPT !.dispatches = @ + 1,
                                  !.handlerCalls = @ + Len(done.handlers),
                                  !.dispatchOk = IF done.out.ok THEN "ok" ELSE "failed",
                                  !.dispatchError = done.out.error,
                                  !.done = IF done.out.ok
                                           THEN Append(@, response.action.tool) ELSE @]
       IN
       /\ WithinBounds(done.out.st, MaxLoopQty)
       /\ cart' = done.out.st.cart
       /\ wishlist' = done.out.st.wishlist
       /\ orders' = done.out.st.orders
       /\ currentProductContext' = done.ctx
       /\ IF done.out.ok /\ formatThrows(response.action.tool, done.out.result)
          THEN /\ conversationHistory' = thought
               /\ ToolFailed(s, [tried EXCEPT !.dispatchError = formatError], formatError)
          ELSE IF done.out.ok
          THEN LET formattedResult ==
                       formatToolResult(response.action.tool, done.out.result)
                   told == [tried EXCEPT !.lastToolResults = Append(@, formattedResult)]
                   history == Append(thought, ToolEntry(response.action.tool,
                                                        response.action.parameters))
               IN  /\ conversationHistory' = history
                   /\ IF returnsAfterTool(response)
                      THEN RunReturns(s, told,
                               formatFinalResponse(response.final_response[1],
                                                   told.lastToolResults),
                               "finalAfterTool")
                      ELSE NextTurn(s, told, history)
          ELSE /\ conversationHistory' = thought
               /\ ToolFailed(s, tried, done.out.error)
    /\ UNCHANGED <<dispatched, agentReady, exited, runs>>

\* b.DecideNextAction returned response
DecisionReturns(s, response) ==
    /\ answered < MaxCalls
    /\ LoopTurn(s, response)

\* b.DecideNextAction resolved with a value that has no fields: reading
\* response.thought throws outside the try blocks and run rejects
RunRejects(s) ==
    LET frame == frames[s] IN
    /\ ~exited
    /\ frame.pc = "awaitDecision"
    /\ answered' = answered + 1
    /\ RunThrows(s, frame)
    /\ UNCHANGED <<dispatched, agentReady, exited, conversationHistory,
                   currentProductContext, cart, wishlist, orders, runs>>

\* the same, within the calls of one session
DecisionUnusable(s) ==
    /\ answered < MaxCalls
    /\ RunRejects(s)

\* processRequest: the delay is over, the while loop calls agent.run again
RetryAfterDelay(s) ==
    LET frame == frames[s] IN
    /\ ~exited
    /\ frame.pc = "delay"
    /\ RunEnter(s, frame.userRequest, frame.attempts, frame.invoked + 1)
    /\ UNCHANGED <<dispatched, agentReady, exited, runs, answered>>

\* process.on("SIGINT"): cancels the busy flag, or shuts down when idle
Sigint ==
    /\ ~exited
    /\ IF isProcessing
       THEN /\ isProcessing' = FALSE
            /\ UNCHANGED exited
       ELSE /\ exited' = TRUE
            /\ UNCHANGED isProcessing
    /\ UNCHANGED <<dispatched, agentReady, conversationHistory, currentProductContext,
                   cart, wishlist, orders, frames, runs, answered>>

\* ------------------------------------------------------------------------
\* Inputs: the lines the user types and the answers of the Decision Function
\* ------------------------------------------------------------------------
Decision(tool, parameters, should_continue, final_response) ==
    [thought |-> "thought",
     action |-> [tool |-> tool, parameters |-> parameters],
     should_continue |-> should_continue,
     final_response |-> final_response]

ById(id) == Json(id, [NoParams EXCEPT !.productId = Some(id)])
ByTerm(term) == Json(term, [NoParams EXCEPT !.searchTerm = Some(term)])
Empty == Json("{}", NoParams)

Lines == { LINE_BLANK, LINE_CLS, LINE_HELP, LINE_CART, LINE_WISHLIST,
           LINE_ORDERS, LINE_CLEARCART, LINE_RESET, LINE_BUYIT }

\* answers that end the run without a dispatch
Stops ==
    { Decision("None", Empty, FALSE, None),
      Decision("None", Empty, TRUE, Some("done")),
      Decision("None", Empty, FALSE, Some("")),
      Decision("AddToCart", ById("USB001"), FALSE, Some("done")) }

\* answers that dispatch an operation, with or without a final message
Continues ==
    { Decision(tool, ById("USB001"), TRUE, final) :
        tool \in {"GetProductDetails", "AddToCart"}, final \in {None, Some("done")} }
    \cup
    { Decision("GetProductDetails", ById("NOPE"), TRUE, None),
      Decision("AddToCart", NotJson("productId=USB001"), TRUE, None),
      Decision("ClearCart", Empty, TRUE, None) }

Decisions == Stops \cup Continues

\* ------------------------------------------------------------------------
\* One operation dispatched on its own: what step 4 of the loop does with
\* the backend, without the transcript around it
\* ------------------------------------------------------------------------
\* the ids of the products a search or a details lookup returned
foundBy(tool, out) ==
    IF out.ok /\ tool = "SearchProducts"
    THEN [ i \in 1..Len(out.result) |-> out.result[i].id ]
    ELSE IF out.ok /\ tool = "GetProductDetails"
    THEN << out.result.id >>
    ELSE <<>>

Dispatch(tool, parametersJson) ==
    LET did == executeTool(session, currentProductContext, tool, parametersJson) IN
    /\ WithinBounds(did.out.st, MaxQty)
    /\ cart' = did.out.st.cart
    /\ wishlist' = did.out.st.wishlist
    /\ orders' = did.out.st.orders
    /\ currentProductContext' = did.ctx
    /\ dispatched' = Some([tool |-> tool, ok |-> did.out.ok, error |-> did.out.error,
                           handlers |-> did.handlers,
                           found |-> foundBy(tool, did.out)])
    /\ UNCHANGED <<agentReady, isProcessing, exited, conversationHistory,
                   frames, runs, answered>>

ToolNames == { "SearchProducts", "GetProductDetails", "GetProductReviews",
               "PurchaseProduct", "AddToCart", "RemoveFromCart", "ViewCart",
               "AddToWishlist", "RemoveFromWishlist", "ViewWishlist",
               "CompareProducts", "Checkout", "ViewOrders", "GetRecommendations" }

\* names the Decision Function may produce that executeTool does not route
OtherNames == { "ClearCart", "UpdateCartQuantity", "MoveWishlistToCart", "None" }

Payloads ==
    { Empty, NotJson("productId=USB001"), ByTerm("anker"), ByTerm("boots"),
      Json("ids", [NoParams EXCEPT !.productIds = Some(<<"USB002", "NOPE", "USB001">>)]) }
    \cup { ById(id) : id \in {"USB001", "NOPE"} }
    \cup { Json("two", [NoParams EXCEPT !.productId = Some(id), !.quantity = Some(2)]) :
             id \in {"USB001"} }

\* the operations that write the product context
LookupNames == { "SearchProducts", "GetProductDetails" }

LookupPayloads == { ById("USB002"), ByTerm("usb"), ByTerm("belkin") }

\* ------------------------------------------------------------------------
\* Specifications
\* ------------------------------------------------------------------------
\* Requests are processed one at a time: the front end, the loop and the
\* backend, with every line the user may type and every answer in Decisions.
Next ==
    \/ InitAgent
    \/ \E input \in Lines : LineNoRequest(input)
    \/ \E input \in Lines : LineRejected(input)
    \/ \E input \in Lines : LineAccepted(input)
    \/ \E s \in Slots : DecisionThrows(s)
    \/ \E s \in Slots, response \in Decisions : DecisionReturns(s, response)

Spec == Init /\ [][Next]_vars

\* The same with interrupt signals, on a short menu of answers.
CliLines == { LINE_EXIT, LINE_CART, LINE_BUYIT }

CliDecisions ==
    { Decision("None", Empty, FALSE, None),
      Decision("AddToCart", ById("USB001"), TRUE, None) }

NextCLI ==
    \/ InitAgent
    \/ \E input \in CliLines : LineExit(input)
    \/ \E input \in CliLines : LineRejected(input)
    \/ \E input \in CliLines : LineAccepted(input)
    \/ \E s \in Slots : DecisionThrows(s)
    \/ \E s \in Slots, response \in CliDecisions : DecisionReturns(s, response)
    \/ Sigint

SpecCLI == Init /\ [][NextCLI]_vars

\* Requests with and without a referential phrase, with and without an
\* explicit product id, around lookups of both products.
CtxLines == { LINE_BUYIT, LINE_FINDUSB, LINE_PURCHASEID, LINE_RESET }

CtxDecisions ==
    { Decision("None", Empty, FALSE, None),
      Decision("GetProductDetails", ById("USB001"), TRUE, None),
      Decision("GetProductDetails", ById("USB002"), TRUE, Some("done")) }

\* a loop turn, within the calls SpecContext allows
ContextTurn(s, response) ==
    /\ answered < MaxCtxCalls
    /\ DecisionReturns(s, response)

NextContext ==
    \/ InitAgent
    \/ \E input \in CtxLines : LineRejected(input)
    \/ \E input \in CtxLines : LineAccepted(input)
    \/ \E s \in Slots, response \in CtxDecisions : ContextTurn(s, response)

SpecContext == Init /\ [][NextContext]_vars

\* Add-to-cart and purchase decisions whose payload leaves the quantity out
\* or supplies one: zero, positive or negative.
ByIdAndQuantity(id, raw, quantity) ==
    Json(raw, [NoParams EXCEPT !.productId = Some(id), !.quantity = Some(quantity)])

QtyPayloads ==
    { ById("USB001"),
      ByIdAndQuantity("USB001", "zero", 0),
      ByIdAndQuantity("USB001", "one", 1),
      ByIdAndQuantity("USB001", "two", 2),
      ByIdAndQuantity("USB001", "minus one", 0 - 1) }

QtyLines == { LINE_BUYIT }

QtyDecisions ==
    { Decision(tool, parameters, TRUE, None) :
        tool \in {"AddToCart", "PurchaseProduct"}, parameters \in QtyPayloads }
    \cup { Decision("None", Empty, FALSE, None) }

\* a loop turn, within the calls SpecQuantity allows
QuantityTurn(s, response) ==
    /\ answered < MaxQtyCalls
    /\ DecisionReturns(s, response)

NextQuantity ==
    \/ InitAgent
    \/ \E input \in QtyLines : LineRejected(input)
    \/ \E input \in QtyLines : LineAccepted(input)
    \/ \E s \in Slots, response \in QtyDecisions : QuantityTurn(s, response)

SpecQuantity == Init /\ [][NextQuantity]_vars

\* Carts of one and two lines filled, checked out and viewed through the
\* loop, and viewed again by the quick command of a later request.
OrderLines == { LINE_BUYIT, LINE_CART }

OrderDecisions ==
    { Decision("AddToCart", ById("USB001"), TRUE, None),
      Decision("AddToCart", ById("USB002"), TRUE, None),
      Decision("Checkout", Empty, TRUE, None),
      Decision("ViewCart", Empty, TRUE, None),
      Decision("None", Empty, FALSE, None) }

\* a loop turn, within the calls SpecCheckout allows
CheckoutTurn(s, response) ==
    /\ answered < MaxOrderCalls
    /\ DecisionReturns(s, response)

NextCheckout ==
    \/ InitAgent
    \/ \E input \in OrderLines : LineRejected(input)
    \/ \E input \in OrderLines : LineAccepted(input)
    \/ \E s \in Slots, response \in OrderDecisions : CheckoutTurn(s, response)

SpecCheckout == Init /\ [][NextCheckout]_vars

\* Searches that hit both products, one product or none, each followed by
\* an answer that ends the run with or without a final message.
SearchLines == { LINE_FINDUSB }

SearchDecisions ==
    { Decision("SearchProducts", ByTerm(term), TRUE, None) :
        term \in {"usb", "anker", "boots"} }
    \cup
    { Decision("SearchProducts", ByTerm("usb"), TRUE, Some("Found 2 cables")),
      Decision("None", Empty, FALSE, Some("Found 2 cables")),
      Decision("None", Empty, FALSE, None) }

\* a loop turn, within the calls SpecSearch allows
SearchTurn(s, response) ==
    /\ answered < MaxSearchCalls
    /\ DecisionReturns(s, response)

NextSearch ==
    \/ InitAgent
    \/ \E input \in SearchLines : LineRejected(input)
    \/ \E input \in SearchLines : LineAccepted(input)
    \/ \E s \in Slots : DecisionThrows(s)
    \/ \E s \in Slots, response \in SearchDecisions : SearchTurn(s, response)

SpecSearch == Init /\ [][NextSearch]_vars

\* Lookups by a catalog id, by an id nobody has and by a property name that
\* every object has, among searches, another operation, follow-up requests
\* and quick commands.
LookupLines == { LINE_BUYIT, LINE_CART, LINE_RESET }

LookupDecisions ==
    { Decision("GetProductDetails", ById(id), TRUE, None) :
        id \in {"USB001", "NOPE", "constructor"} }
    \cup
    { Decision("SearchProducts", ByTerm(term), TRUE, None) : term \in {"anker", "usb"} }
    \cup
    { Decision("AddToCart", ById("USB002"), TRUE, None),
      Decision("None", Empty, FALSE, None) }

\* a loop turn, within the calls SpecLookup allows
LookupTurn(s, response) ==
    /\ answered < MaxLookupCalls
    /\ DecisionReturns(s, response)

NextLookup ==
    \/ InitAgent
    \/ \E input \in LookupLines : LineRejected(input)
    \/ \E input \in LookupLines : LineAccepted(input)
    \/ \E s \in Slots : DecisionThrows(s)
    \/ \E s \in Slots, response \in LookupDecisions : LookupTurn(s, response)

SpecLookup == Init /\ [][NextLookup]_vars

\* Runs that reject, so that processRequest retries them.
RetryLines == { LINE_BUYIT, LINE_CART }

RetryDecisions ==
    { Decision("None", Empty, FALSE, None),
      Decision("AddToCart", ById("USB001"), TRUE, None) }

NextRetry ==
    \/ InitAgent
    \/ \E input \in RetryLines : LineRejected(input)
    \/ \E input \in RetryLines : LineAccepted(input)
    \/ \E s \in Slots : DecisionThrows(s)
    \/ \E s \in Slots : DecisionUnusable(s)
    \/ \E s \in Slots : RetryAfterDelay(s)
    \/ \E s \in Slots, response \in RetryDecisions : DecisionReturns(s, response)

SpecRetry == Init /\ [][NextRetry]_vars

\* Two requests of ten iterations each, with interrupt signals between
\* them: the transcript while runs overlap.
OverlapLines == { LINE_BUYIT }

OverlapDecisions == { Decision("GetProductDetails", ById("USB001"), TRUE, None) }

\* a loop turn, within the calls SpecOverlap allows
OverlapTurn(s, response) ==
    /\ answered < MaxOverlapCalls
    /\ LoopTurn(s, response)

NextOverlap ==
    \/ InitAgent
    \/ \E input \in OverlapLines : LineRejected(input)
    \/ \E input \in OverlapLines : LineAccepted(input)
    \/ \E s \in Slots, response \in OverlapDecisions : OverlapTurn(s, response)
    \/ Sigint

SpecOverlap == Init /\ [][NextOverlap]_vars

\* Direct purchases and checkouts through the loop, good and failing,
\* between the quick commands that show the orders, clear the cart and
\* reset the conversation.
PurchaseLines == { LINE_BUYIT, LINE_ORDERS, LINE_CLEARCART, LINE_RESET }

PurchaseDecisions ==
    { Decision("PurchaseProduct", ById("USB001"), TRUE, None),
      Decision("PurchaseProduct", ById("NOPE"), TRUE, None),
      Decision("AddToCart", ById("USB001"), TRUE, None),
      Decision("AddToWishlist", ById("USB002"), TRUE, None),
      Decision("RemoveFromCart", ById("USB001"), TRUE, None),
      Decision("Checkout", Empty, TRUE, None),
      Decision("None", Empty, FALSE, None) }

\* a loop turn, within the calls SpecPurchase allows
PurchaseTurn(s, response) ==
    /\ answered < MaxPurchaseCalls
    /\ DecisionReturns(s, response)

NextPurchase ==
    \/ InitAgent
    \/ \E input \in PurchaseLines : LineRejected(input)
    \/ \E input \in PurchaseLines : LineAccepted(input)
    \/ \E s \in Slots, response \in PurchaseDecisions : PurchaseTurn(s, response)

SpecPurchase == Init /\ [][NextPurchase]_vars

\* Requests whose every Decision Function call is answered and whose
\* every retry delay runs out.  The Decision Function asks for another
\* iteration only on the first MaxLiveCalls calls of the session, so that
\* the session is finite; an answer that stops the run or cannot be used
\* is always possible.
LiveLines == { LINE_BUYIT, LINE_CART }

LiveDecisions ==
    { Decision("None", Empty, FALSE, None),
      Decision("GetProductDetails", ById("USB001"), TRUE, None) }

LiveTurn(s, response) ==
    /\ (~stops(response)) => answered < MaxLiveCalls
    /\ LoopTurn(s, response)

\* the call of slot s is answered, one way or another
Answered(s) ==
    \/ \E response \in LiveDecisions : LiveTurn(s, response)
    \/ RunRejects(s)

NextLive ==
    \/ InitAgent
    \/ \E input \in LiveLines : LineRejected(input)
    \/ \E input \in LiveLines : LineAccepted(input)
    \/ \E s \in Slots, response \in LiveDecisions : LiveTurn(s, response)
    \/ \E s \in Slots : RunRejects(s)
    \/ \E s \in Slots : RetryAfterDelay(s)

\* `await b.DecideNextAction(...)` and `await this.delay(...)` both resume
SpecLive ==
    /\ Init /\ [][NextLive]_vars
    /\ \A s \in Slots : WF_vars(Answered(s))
    /\ \A s \in Slots : WF_vars(RetryAfterDelay(s))

\* The backend on its own: the exported functions of tools.ts that write
\* the cart, the wishlist or the orders, called in any order with ids in
\* and out of the catalog and with quantities on both sides of zero.
BackendIds == { "USB001", "USB002", "NOPE" }

BackendQuantities == { 0 - 1, 0, 1, 2 }

BackendCalls ==
    { [name |-> name, productId |-> id, quantity |-> quantity] :
        name \in {"addToCart", "purchaseProduct"},
        id \in BackendIds, quantity \in BackendQuantities \ {0} }
    \cup
    { [name |-> "updateCartQuantity", productId |-> id, quantity |-> quantity] :
        id \in BackendIds, quantity \in BackendQuantities }
    \cup
    { [name |-> name, productId |-> id, quantity |-> 0] :
        name \in {"removeFromCart", "addToWishlist", "removeFromWishlist",
                  "moveWishlistToCart"},
        id \in BackendIds }
    \cup
    { [name |-> name, productId |-> "", quantity |-> 0] :
        name \in {"clearCart", "checkout"} }

\* the outcome of one call on the session state st
backendCall(st, call) ==
    CASE call.name = "addToCart" ->
            addToCart(st, Some(call.productId), call.quantity)
      [] call.name = "removeFromCart" -> removeFromCart(st, Some(call.productId))
      [] call.name = "updateCartQuantity" ->
            updateCartQuantity(st, Some(call.productId), call.quantity)
      [] call.name = "clearCart" -> clearCart(st)
      [] call.name = "addToWishlist" -> addToWishlist(st, Some(call.productId))
      [] call.name = "removeFromWishlist" ->
            removeFromWishlist(st, Some(call.productId))
      [] call.name = "moveWishlistToCart" ->
            moveWishlistToCart(st, Some(call.productId))
      [] call.name = "purchaseProduct" ->
            purchaseProduct(st, Some(call.productId), call.quantity)
      [] OTHER -> checkout(st)

\* one call; `dispatched` keeps the call, its outcome and its number
BackendCall(call) ==
    LET out == backendCall(session, call)
        n == IF dispatched = None THEN 0 ELSE dispatched[1].n
    IN
    /\ n < MaxBackendCalls
    /\ WithinBounds(out.st, MaxQty)
    /\ cart' = out.st.cart
    /\ wishlist' = out.st.wishlist
    /\ orders' = out.st.orders
    /\ dispatched' = Some([call |-> call, ok |-> out.ok, n |-> n + 1])
    /\ UNCHANGED <<agentReady, isProcessing, exited, conversationHistory,
                   currentProductContext, frames, runs, answered>>

NextBackend == \E call \in BackendCalls : BackendCall(call)

SpecBackend == Init /\ [][NextBackend]_vars

\* Every operation name with every payload, dispatched in any order, and
\* the lookups also on the second product and on a term that hits both.
NextDispatch ==
    \/ \E tool \in ToolNames \cup OtherNames, parametersJson \in Payloads :
          Dispatch(tool, parametersJson)
    \/ \E tool \in LookupNames, parametersJson \in LookupPayloads :
          Dispatch(tool, parametersJson)

SpecDispatch == Init /\ [][NextDispatch]_vars


\* ------------------------------------------------------------------------
\* Properties of the agentic loop (checked under Spec unless noted)
\* ------------------------------------------------------------------------

\* C1: a single call of run makes at most maxIterations calls to the
\* Decision Function, whatever the answers and the backend outcomes are,
\* and then returns.
C1_CallsWithinCeiling ==
    \A s \in Slots :
        /\ frames[s].dfCalls <= maxIterations
        /\ frames[s].iteration <= maxIterations
        /\ frames[s].ended = "ceiling" =>
              /\ frames[s].pc = "returned"
              /\ frames[s].dfCalls = maxIterations

\* a run that used all maxIterations calls and left through the ceiling
C1_Witness ==
    \E s \in Slots :
        /\ frames[s].pc = "returned"
        /\ frames[s].ended = "ceiling"
        /\ frames[s].dfCalls = maxIterations
        /\ frames[s].dispatches = maxIterations

C3_HistoryBounded == Len(conversationHistory) <= maxHistoryLength

\* C4 (under SpecCLI): at most one call of agent.run is in flight at any
\* moment, whatever the order of lines and interrupt signals.
C4_OneRunInFlight ==
    Cardinality({ s \in Slots : frames[s].pc = "awaitDecision" }) <= 1

\* C5: when a dispatched operation fails the run stops at once: it has
\* returned, no Decision Function call is pending, no dispatch followed the
\* failing one, and the response is the error-styled message that carries
\* the operation's own failure message.
C5_FailureStopsLoop ==
    \A s \in Slots :
        frames[s].dispatchOk = "failed" =>
            /\ frames[s].pc = "returned"
            /\ frames[s].call = None
            /\ frames[s].dispatches = frames[s].dfCalls
            /\ frames[s].dispatchError # None
            /\ frames[s].response =
                   Some([style |-> "error",
                         text |-> Some([prefix |-> "Tool execution failed: ",
                                        msg |-> frames[s].dispatchError[1].msg,
                                        arg |-> frames[s].dispatchError[1].arg]),
                         tools |-> <<>>])

\* a third dispatch failed on an unknown product id after two that succeeded
C5_Witness ==
    \E s \in Slots :
        /\ frames[s].dispatchOk = "failed"
        /\ frames[s].dispatchError[1].msg = "Product with ID not found"
        /\ frames[s].dispatches = 3
        /\ Len(frames[s].done) = 2
        /\ frames[s].pc = "returned"

\* C6 (under SpecDispatch): a dispatch that fails (unknown product id on
\* add-to-cart, add-to-wishlist or purchase, item not in the cart or the
\* wishlist on removal, empty cart on checkout, or any other failure)
\* leaves the cart, the wishlist and the order history exactly as they were
\* immediately before it.
C6_FailedDispatchChangesNothing ==
    [][ (dispatched' # None /\ ~dispatched'[1].ok) =>
            /\ cart' = cart
            /\ wishlist' = wishlist
            /\ orders' = orders ]_vars

\* a purchase of an unknown product id failed while the cart, the wishlist
\* and the order history all held something
C6_Witness ==
    /\ dispatched # None
    /\ dispatched[1].tool = "PurchaseProduct"
    /\ ~dispatched[1].ok
    /\ dispatched[1].error[1].msg = "Product with ID not found"
    /\ Len(cart.items) > 0
    /\ Len(wishlist.items) > 0
    /\ Len(orders) > 0

\* C7 as stated: when run returns after a Decision Function failure, the
\* cart, the wishlist, the order history and the product context are what
\* they were when that run started.
C7_StateAsAtRunStart ==
    \A s \in Slots :
        (frames[s].pc = "returned" /\ frames[s].ended = "decisionFailed") =>
            /\ session = frames[s].pre[1].session
            /\ currentProductContext = frames[s].pre[1].context

\* C7 as amended: the failing Decision Function call changes nothing by
\* itself: when run returns after it, the cart, the wishlist, the order
\* history and the product context are what they were when that call
\* failed; what earlier iterations of the run changed stays changed.
C7_FailingCallChangesNothing ==
    [][ (\E s \in Slots : /\ frames[s].pc = "awaitDecision"
                          /\ frames'[s].pc = "returned"
                          /\ frames'[s].ended = "decisionFailed") =>
            /\ cart' = cart
            /\ wishlist' = wishlist
            /\ orders' = orders
            /\ currentProductContext' = currentProductContext ]_vars

\* the Decision Function failed on the third call, after the run had looked
\* a product up and put it in the cart
C7_Witness ==
    \E s \in Slots :
        /\ frames[s].pc = "returned"
        /\ frames[s].ended = "decisionFailed"
        /\ frames[s].dfCalls = 3
        /\ frames[s].done = <<"GetProductDetails", "AddToCart">>
        /\ cart # frames[s].pre[1].session.cart
        /\ currentProductContext # None
        /\ frames[s].pre[1].context = None

\* C8: if the Decision Function throws on the first iteration of a run that
\* is not a quick command, run returns a non-empty error-styled text and
\* the transcript is the transcript from before the run with the one user
\* entry (the request, annotated with the product context or not) appended
\* and then cut to its last maxHistoryLength entries: no thought and no
\* tool record is added.
C8_FirstCallFails ==
    \A s \in Slots :
        (/\ frames[s].pc = "returned"
         /\ frames[s].ended = "decisionFailed"
         /\ frames[s].dfCalls = 1) =>
            LET before == frames[s].pre[1].history
                n == Len(conversationHistory)
                kept == n - 1
            IN  /\ frames[s].response # None
                /\ frames[s].response[1].style = "error"
                /\ frames[s].response[1].text # None
                /\ frames[s].response[1].tools = <<>>
                /\ n = IF Len(before) + 1 > maxHistoryLength
                       THEN maxHistoryLength ELSE Len(before) + 1
                /\ conversationHistory[n].kind = "User"
                /\ conversationHistory[n].text = frames[s].userRequest
                /\ conversationHistory[n].context \in {None, frames[s].pre[1].context}
                /\ \A i \in 1..kept :
                      conversationHistory[i] = before[Len(before) - kept + i]
                /\ frames[s].dispatches = 0

\* the first call failed in a run that found the transcript already longer
\* than maxHistoryLength and had a product context to annotate with
C8_Witness ==
    \E s \in Slots :
        /\ frames[s].pc = "returned"
        /\ frames[s].ended = "decisionFailed"
        /\ frames[s].dfCalls = 1
        /\ Len(frames[s].pre[1].history) > maxHistoryLength
        /\ Len(conversationHistory) = maxHistoryLength
        /\ conversationHistory[maxHistoryLength].context # None

\* C9: when the decision has should_continue = false or names the sentinel
\* "None", nothing is dispatched in that iteration, even if the decision
\* names a real operation, and run returns the decision's final message if
\* it has one, otherwise its thought, after the formatted outputs of the
\* operations dispatched earlier in the run.
C9_StopDecisionDispatchesNothing ==
    \A s \in Slots :
        (/\ frames[s].decision # None
         /\ \/ ~frames[s].decision[1].should_continue
            \/ frames[s].decision[1].action.tool = "None") =>
            LET d == frames[s].decision[1]
                message == IF d.final_response = None \/ d.final_response = Some("")
                           THEN d.thought ELSE d.final_response[1]
            IN  /\ frames[s].pc = "returned"
                /\ frames[s].dispatchOk = "none"
                /\ frames[s].dispatches = frames[s].dfCalls - 1
                /\ Len(frames[s].done) = frames[s].dispatches
                /\ frames[s].response =
                       Some([style |-> "final",
                             text |-> Some([prefix |-> "", msg |-> message, arg |-> ""]),
                             tools |-> [ i \in 1..Len(frames[s].done) |->
                                           [block |-> frames[s].done[i]] ]])

\* a decision that names AddToCart with should_continue = false ended a run
\* that had dispatched one operation before; the cart was left alone
C9_Witness ==
    \E s \in Slots :
        /\ frames[s].pc = "returned"
        /\ frames[s].decision # None
        /\ frames[s].decision[1].action.tool = "AddToCart"
        /\ ~frames[s].decision[1].should_continue
        /\ frames[s].done = <<"GetProductDetails">>
        /\ frames[s].response[1].text[1].msg = "done"
        /\ cart = frames[s].pre[1].session.cart

\* C10: when the decision has should_continue = true, names a real
\* operation and carries a final message, the operation is dispatched
\* exactly once and, if it succeeds, run returns at once with that final
\* message after the accumulated outputs, without another Decision Function
\* call.
C10_FinalMessageAfterDispatch ==
    \A s \in Slots :
        (/\ frames[s].decision # None
         /\ frames[s].decision[1].should_continue
         /\ frames[s].decision[1].action.tool # "None"
         /\ frames[s].decision[1].final_response \notin {None, Some("")}) =>
            LET d == frames[s].decision[1] IN
            /\ frames[s].dispatchOk \in {"ok", "failed"}
            /\ frames[s].dispatches = frames[s].dfCalls
            /\ frames[s].dispatchOk = "ok" =>
                  /\ frames[s].pc = "returned"
                  /\ frames[s].call = None
                  /\ Len(frames[s].done) = frames[s].dispatches
                  /\ frames[s].done[Len(frames[s].done)] = d.action.tool
                  /\ frames[s].response =
                         Some([style |-> "final",
                               text |-> Some([prefix |-> "", msg |-> d.final_response[1],
                                              arg |-> ""]),
                               tools |-> [ i \in 1..Len(frames[s].done) |->
                                             [block |-> frames[s].done[i]] ]])

\* the second decision of a run put a product in the cart and carried a
\* final message: the run returned after two calls and two dispatches
C10_Witness ==
    \E s \in Slots :
        /\ frames[s].pc = "returned"
        /\ frames[s].ended = "finalAfterTool"
        /\ frames[s].decision[1].action.tool = "AddToCart"
        /\ frames[s].decision[1].should_continue
        /\ frames[s].dfCalls = 2
        /\ frames[s].dispatches = 2
        /\ Len(cart.items) = 1
        /\ Len(frames[s].response[1].tools) = 2

\* C11: when maxIterations decisions in a row each continue with an
\* operation that is dispatched successfully and carry no final message,
\* run returns the fixed clarification request, styled as a warning and
\* not as an error, after exactly maxIterations Decision Function calls and
\* maxIterations dispatches.
C11_CeilingAsksForClarification ==
    \A s \in Slots :
        (/\ Len(frames[s].done) = maxIterations
         /\ frames[s].decision # None
         /\ frames[s].decision[1].final_response \in {None, Some("")}) =>
            /\ frames[s].pc = "returned"
            /\ frames[s].dfCalls = maxIterations
            /\ frames[s].dispatches = maxIterations
            /\ frames[s].call = None
            /\ frames[s].response =
                   Some([style |-> "warning",
                         text |-> Some([prefix |-> "", msg |-> "need more information",
                                        arg |-> ""]),
                         tools |-> <<>>])

\* ten product lookups in a row, none with a final message: the run ended
\* with the warning and left the lookups and thoughts in the transcript
C11_Witness ==
    \E s \in Slots :
        /\ frames[s].pc = "returned"
        /\ frames[s].response[1].style = "warning"
        /\ frames[s].done = [ i \in 1..maxIterations |-> "GetProductDetails" ]
        /\ frames[s].decision[1].final_response = None
        /\ Len(conversationHistory) = 1 + 2 * maxIterations

\* C12 (under SpecDispatch): right after a dispatched details lookup that
\* succeeds, or a dispatched search that returns exactly one product, the
\* product context holds that product's id and title, whatever it held
\* before.
C12_ContextFollowsSingleProduct ==
    (/\ dispatched # None
     /\ dispatched[1].ok
     /\ \/ dispatched[1].tool = "GetProductDetails"
        \/ dispatched[1].tool = "SearchProducts" /\ Len(dispatched[1].found) = 1) =>
        LET id == dispatched[1].found[1] IN
        /\ Len(dispatched[1].found) = 1
        /\ id \in ProductIds
        /\ currentProductContext =
               Some([productId |-> id,
                     title |-> IF id = "USB001" THEN "Anker USB Cable"
                               ELSE "Belkin USB Cable"])

\* a search that matched only the second product was dispatched, and the
\* context names that product
C12_Witness ==
    /\ dispatched # None
    /\ dispatched[1].tool = "SearchProducts"
    /\ dispatched[1].ok
    /\ dispatched[1].found = <<"USB002">>
    /\ currentProductContext # None
    /\ currentProductContext[1].productId = "USB002"
    /\ Len(cart.items) > 0

\* C13 (under SpecDispatch): a dispatched search that returns more than one
\* product, or none, leaves the product context as it was.
C13_OtherSearchesKeepContext ==
    [][ (/\ dispatched' # None
         /\ dispatched'[1].tool = "SearchProducts"
         /\ dispatched'[1].ok
         /\ Len(dispatched'[1].found) # 1) =>
            currentProductContext' = currentProductContext ]_vars

\* a search that matched both products was dispatched while the context
\* named the second product
C13_Witness ==
    /\ dispatched # None
    /\ dispatched[1].tool = "SearchProducts"
    /\ dispatched[1].ok
    /\ Len(dispatched[1].found) = 2
    /\ currentProductContext # None
    /\ currentProductContext[1].productId = "USB002"

\* C14 (under SpecContext): once a successful details lookup of product X
\* has set the product context and no reset came after it, a later request
\* that contains a referential phrase is appended to the transcript with
\* X's id in its annotation, and the transcript handed to the first
\* Decision Function call of that run already ends with this entry.
C14_FollowUpNamesTheProduct ==
    \A s \in Slots :
        LET f == frames[s]
            h == f.pre[1].history
            lookups == { i \in 1..Len(h) :
                           h[i].kind = "Tool" /\ h[i].tool = "GetProductDetails" }
        IN  (/\ f.pc = "awaitDecision"
             /\ f.dfCalls = 1
             /\ \E phrase \in contextualPhrases :
                   includes(trim(toLowerCase(f.userRequest)), phrase)
             /\ lookups # {}) =>
                LET last == CHOOSE i \in lookups : \A j \in lookups : j <= i
                    told == f.call[1].history
                    entry == told[Len(told)]
                IN  /\ told = conversationHistory
                    /\ entry.kind = "User"
                    /\ entry.text = f.userRequest
                    /\ entry.context # None
                    /\ entry.context[1].productId = h[last].parameters

\* "buy it" after lookups of the first and then the second product: the
\* first call of the run is pending and the entry names the second product
C14_Witness ==
    \E s \in Slots :
        /\ frames[s].pc = "awaitDecision"
        /\ frames[s].dfCalls = 1
        /\ frames[s].userRequest = LINE_BUYIT
        /\ Len(frames[s].pre[1].history) = 5
        /\ frames[s].pre[1].history[3].parameters = "USB001"
        /\ frames[s].pre[1].history[5].parameters = "USB002"
        /\ conversationHistory[6].context # None
        /\ conversationHistory[6].context[1].productId = "USB002"

\* C15 (under SpecContext): the user entry of a request that goes to the
\* loop carries the context product's id and title if and only if the
\* lowercased request contains a referential phrase and the product
\* context is set; every Decision Function call of the run gets the
\* original request as its first argument and the transcript with that
\* entry as its second.
C15_AnnotationOnlyInTranscript ==
    \A s \in Slots :
        frames[s].pc = "awaitDecision" =>
            LET f == frames[s]
                told == f.call[1].history
                entry == told[Len(told) - 2 * (f.dfCalls - 1)]
                referential == \E phrase \in contextualPhrases :
                                  includes(trim(toLowerCase(f.userRequest)), phrase)
            IN  /\ f.call[1].userRequest = f.userRequest
                /\ told = conversationHistory
                /\ entry.kind = "User"
                /\ entry.text = f.userRequest
                /\ (entry.context # None) <=> (referential /\ f.pre[1].context # None)
                /\ entry.context # None => entry.context = f.pre[1].context

\* the second call of a run for "Purchase USB002" is pending: the request
\* goes out as typed, the entry two places up carries the first product
C15_Witness ==
    \E s \in Slots :
        /\ frames[s].pc = "awaitDecision"
        /\ frames[s].dfCalls = 2
        /\ frames[s].call[1].userRequest = LINE_PURCHASEID
        /\ Len(conversationHistory) >= 3
        /\ conversationHistory[Len(conversationHistory) - 2].kind = "User"
        /\ conversationHistory[Len(conversationHistory) - 2].context =
               Some([productId |-> "USB001", title |-> "Anker USB Cable"])

\* C16 as stated (under SpecContext): a request that contains a referential
\* phrase and names a product id explicitly is appended to the transcript
\* without the context annotation.
C16_ExplicitIdNotAnnotated ==
    \A s \in Slots :
        LET f == frames[s]
            lower == trim(toLowerCase(f.userRequest))
        IN  (/\ f.pc = "awaitDecision"
             /\ f.dfCalls = 1
             /\ \E phrase \in contextualPhrases : includes(lower, phrase)
             /\ \E id \in ProductIds : includes(lower, idText[id])) =>
                conversationHistory[Len(conversationHistory)].context = None

\* C16 as amended (under SpecContext): a request that contains a
\* referential phrase is annotated with the product context whenever the
\* context is set, also when the request names a product id explicitly;
\* the request's own text, with that id, is kept in the entry.
C16_ExplicitIdStillAnnotated ==
    \A s \in Slots :
        LET f == frames[s]
            lower == trim(toLowerCase(f.userRequest))
        IN  (/\ f.pc = "awaitDecision"
             /\ f.dfCalls = 1
             /\ \E phrase \in contextualPhrases : includes(lower, phrase)
             /\ \E id \in ProductIds : includes(lower, idText[id])
             /\ f.pre[1].context # None) =>
                LET entry == conversationHistory[Len(conversationHistory)]
                IN  /\ entry.kind = "User"
                    /\ entry.text = f.userRequest
                    /\ entry.context = f.pre[1].context

\* "Purchase USB002" typed while the context names the first product: the
\* entry keeps the typed id and is annotated with the first product
C16_Witness ==
    \E s \in Slots :
        /\ frames[s].pc = "awaitDecision"
        /\ frames[s].dfCalls = 1
        /\ frames[s].userRequest = LINE_PURCHASEID
        /\ conversationHistory[Len(conversationHistory)].text = LINE_PURCHASEID
        /\ conversationHistory[Len(conversationHistory)].context # None
        /\ conversationHistory[Len(conversationHistory)].context[1].productId = "USB001"

\* a request as the quick-command literals are compared with it: trimmed
\* and lowercased
normalized == [ userRequest \in Requests |-> trim(toLowerCase(userRequest)) ]

\* C17: whatever the state before, a `clear history` / `reset` request is
\* answered with the transcript empty and the product context unset; a
\* second reset right after the first changes nothing.
C17_ResetClearsAndIsIdempotent ==
    /\ [](\A s \in Slots :
            (/\ frames[s].pc # "idle"
             /\ normalized[frames[s].userRequest] \in
                    { <<"r", "e", "s", "e", "t">>,
                      <<"c", "l", "e", "a", "r", " ", "h", "i", "s", "t", "o", "r", "y">> }) =>
                /\ frames[s].pc = "returned"
                /\ Len(conversationHistory) = 0
                /\ currentProductContext = None)
    /\ [][ (/\ runs' = runs + 1
            /\ \E s \in Slots :
                  /\ frames[s].pc = "returned"
                  /\ normalized[frames[s].userRequest] = <<"r", "e", "s", "e", "t">>
                  /\ frames'[s].pc = "returned"
                  /\ normalized[frames'[s].userRequest] = <<"r", "e", "s", "e", "t">>) =>
               /\ conversationHistory' = conversationHistory
               /\ currentProductContext' = currentProductContext
               /\ cart' = cart /\ wishlist' = wishlist /\ orders' = orders
               /\ isProcessing' = isProcessing ]_vars

\* a reset answered after a run that had left five entries and a product
\* context: nothing is left of either
C17_Witness ==
    \E s \in Slots :
        /\ frames[s].pc = "returned"
        /\ frames[s].userRequest = <<"R", "e", "s", "e", "t">>
        /\ Len(frames[s].pre[1].history) = 5
        /\ frames[s].pre[1].context # None
        /\ conversationHistory = <<>>
        /\ currentProductContext = None

\* C18: a `clear history` / `reset` request leaves the cart, the wishlist
\* and the order history as they were.
C18_ResetKeepsSession ==
    \A s \in Slots :
        (/\ frames[s].pc = "returned"
         /\ normalized[frames[s].userRequest] \in
                { <<"r", "e", "s", "e", "t">>,
                  <<"c", "l", "e", "a", "r", " ", "h", "i", "s", "t", "o", "r", "y">> }) =>
            /\ cart = frames[s].pre[1].session.cart
            /\ wishlist = frames[s].pre[1].session.wishlist
            /\ orders = frames[s].pre[1].session.orders
            /\ frames[s].handlerCalls = 0

\* a reset answered while the cart held a product: the cart still holds it
C18_Witness ==
    \E s \in Slots :
        /\ frames[s].pc = "returned"
        /\ frames[s].userRequest = <<"R", "e", "s", "e", "t">>
        /\ Len(cart.items) = 1
        /\ cart.total > 0
        /\ Len(frames[s].pre[1].history) > 0
        /\ conversationHistory = <<>>

\* C19: a request that is a quick-command literal once trimmed and
\* lowercased is answered without a Decision Function call; unless it is
\* the reset it leaves the transcript and the product context as they
\* were, and unless it is clear-cart it leaves the cart, the wishlist and
\* the order history as they were.
C19_QuickCommandsBypassLoop ==
    \A s \in Slots :
        LET f == frames[s]
            lower == normalized[f.userRequest]
        IN  (/\ f.pc # "idle"
             /\ lower \in helpCommands \cup cartCommands \cup wishlistCommands
                          \cup ordersCommands \cup clearCartCommands \cup resetCommands) =>
                /\ f.pc = "returned"
                /\ f.dfCalls = 0
                /\ f.dispatches = 0
                /\ f.decision = None
                /\ lower \notin resetCommands =>
                      /\ conversationHistory = f.pre[1].history
                      /\ currentProductContext = f.pre[1].context
                /\ lower \notin clearCartCommands =>
                      /\ cart = f.pre[1].session.cart
                      /\ wishlist = f.pre[1].session.wishlist
                      /\ orders = f.pre[1].session.orders
                /\ lower \in clearCartCommands =>
                      /\ cart = [items |-> <<>>, total |-> 0]
                      /\ wishlist = f.pre[1].session.wishlist
                      /\ orders = f.pre[1].session.orders

\* " Cart" typed after a run that put a product in the cart: answered with
\* no call, transcript, context and cart untouched
C19_Witness ==
    \E s \in Slots :
        /\ frames[s].pc = "returned"
        /\ frames[s].userRequest = <<"C", "a", "r", "t">>
        /\ frames[s].dfCalls = 0
        /\ frames[s].handlerCalls = 1
        /\ Len(conversationHistory) > 0
        /\ currentProductContext # None
        /\ Len(cart.items) = 1

\* C20 (under SpecDispatch): for every operation name of the dispatch
\* table, a dispatch with a minimally valid payload calls the backend
\* handler of that name once and no other handler, with the arguments
\* decoded from the payload and defaulted (quantity 1, limit 3), and yields
\* exactly what the handler returns or throws.
C20_DispatchRoutesToOneHandler ==
    LET one == Some("USB001")
        ids == <<"USB002", "NOPE", "USB001">>
        byIds == Json("ids", [NoParams EXCEPT !.productIds = Some(ids)])
        routed(tool, payload, handler, outcome) ==
            LET did == executeTool(session, currentProductContext, tool, payload)
            IN  /\ did.handlers = <<handler>>
                /\ did.out = outcome
    IN  /\ routed("SearchProducts", ByTerm("usb"), "searchProducts",
                  searchProducts(session, Some("usb"), None))
        /\ routed("GetProductDetails", ById("USB001"), "getProductDetails",
                  getProductDetails(session, one))
        /\ routed("GetProductReviews", ById("USB001"), "getProductReviews",
                  getProductReviews(session, one))
        /\ routed("PurchaseProduct", ById("USB001"), "purchaseProduct",
                  purchaseProduct(session, one, 1))
        /\ routed("AddToCart", ById("USB001"), "addToCart", addToCart(session, one, 1))
        /\ routed("RemoveFromCart", ById("USB001"), "removeFromCart",
                  removeFromCart(session, one))
        /\ routed("ViewCart", Empty, "viewCart", viewCart(session))
        /\ routed("AddToWishlist", ById("USB001"), "addToWishlist",
                  addToWishlist(session, one))
        /\ routed("RemoveFromWishlist", ById("USB001"), "removeFromWishlist",
                  removeFromWishlist(session, one))
        /\ routed("ViewWishlist", Empty, "viewWishlist", viewWishlist(session))
        /\ routed("CompareProducts", byIds, "compareProducts",
                  compareProducts(session, ids))
        /\ routed("Checkout", Empty, "checkout", checkout(session))
        /\ routed("ViewOrders", Empty, "viewOrders", viewOrders(session))
        /\ routed("GetRecommendations", ById("USB001"), "getRecommendations",
                  getRecommendations(session, one, 3))
        /\ dispatched # None =>
              /\ Len(dispatched[1].handlers) <= 1
              /\ dispatched[1].tool \notin ToolNames => dispatched[1].handlers = <<>>

\* AddToCart was dispatched with only a product id: one call of addToCart,
\* and the cart holds that product once
C20_Witness ==
    /\ dispatched # None
    /\ dispatched[1].tool = "AddToCart"
    /\ dispatched[1].ok
    /\ dispatched[1].handlers = <<"addToCart">>
    /\ Len(cart.items) = 1
    /\ cart.items[1].productId = "USB001"
    /\ cart.items[1].quantity = 1
    /\ cart.total = 3

\* ------------------------------------------------------------------------
\* Properties of the dispatch and of the scenarios of the loop
\* ------------------------------------------------------------------------

\* the dispatch a step of the loop made, if it made one that succeeded
DispatchedOk(s, tools) ==
    /\ frames'[s].dispatches = frames[s].dispatches + 1
    /\ frames'[s].dispatchOk = "ok"
    /\ frames'[s].decision[1].action.tool \in tools

\* C21 (under SpecQuantity): for add-to-cart and purchase dispatches the
\* backend handler receives quantity 1 when the payload omits the quantity
\* and exactly the payload's quantity whenever the payload supplies one:
\* the session state after the dispatch is the one the handler leaves when
\* it is called with that quantity.
C21_QuantityAsSupplied ==
    [][ \A s \in Slots :
          DispatchedOk(s, {"AddToCart", "PurchaseProduct"}) =>
            LET action == frames'[s].decision[1].action
                params == action.parameters.parsed[1]
                quantity == IF params.quantity = None THEN 1 ELSE params.quantity[1]
                after == [cart |-> cart', wishlist |-> wishlist', orders |-> orders']
            IN  IF action.tool = "AddToCart"
                THEN after = addToCart(session, params.productId, quantity).st
                ELSE after = purchaseProduct(session, params.productId, quantity).st ]_vars

\* the dispatch a step of the loop made, if it made one
DispatchedBy(s) ==
    frames'[s].dispatches = frames[s].dispatches + 1

\* run has returned the error box of a failed dispatch
ReturnedToolError(frame, msg, arg) ==
    /\ frame.pc = "returned"
    /\ frame.call = None
    /\ frame.ended = "toolFailed"
    /\ frame.response = Some([style |-> "error",
                              text |-> Some([prefix |-> "Tool execution failed: ",
                                             msg |-> msg, arg |-> arg]),
                              tools |-> <<>>])

\* C22: when the parameter payload of the chosen operation fails to decode,
\* no backend handler is called, the cart, the wishlist, the orders and the
\* product context stay as they were, the loop stops, and the error message
\* that run returns contains the raw payload text.
C22_MalformedPayloadStopsRun ==
    [][ \A s \in Slots :
          (DispatchedBy(s) /\ frames'[s].decision[1].action.parameters.parsed = None) =>
            /\ frames'[s].handlerCalls = frames[s].handlerCalls
            /\ cart' = cart
            /\ wishlist' = wishlist
            /\ orders' = orders
            /\ currentProductContext' = currentProductContext
            /\ frames'[s].dispatchOk = "failed"
            /\ ReturnedToolError(frames'[s], "Invalid parameters format",
                                 frames'[s].decision[1].action.parameters.raw)
            /\ ~isProcessing' ]_vars

\* a payload that is not JSON came third in a run, after a details lookup
\* and an add-to-cart that succeeded
C22_Witness ==
    \E s \in Slots :
        /\ frames[s].dispatchOk = "failed"
        /\ frames[s].decision[1].action.parameters.parsed = None
        /\ frames[s].dispatchError[1].arg = "productId=USB001"
        /\ frames[s].pc = "returned"
        /\ frames[s].done = <<"GetProductDetails", "AddToCart">>
        /\ Len(cart.items) = 1
        /\ currentProductContext # None

\* C23: a decision that continues with an operation name that the dispatch
\* table does not hold calls no backend handler, changes neither the cart,
\* the wishlist, the orders nor the product context, and ends the run with
\* an error response.
C23_UnknownOperationStopsRun ==
    [][ \A s \in Slots :
          (DispatchedBy(s) /\ frames'[s].decision[1].action.tool \notin ToolNames) =>
            /\ frames'[s].handlerCalls = frames[s].handlerCalls
            /\ cart' = cart
            /\ wishlist' = wishlist
            /\ orders' = orders
            /\ currentProductContext' = currentProductContext
            /\ frames'[s].dispatchOk = "failed"
            /\ frames'[s].pc = "returned"
            /\ frames'[s].call = None
            /\ frames'[s].response # None
            /\ frames'[s].response[1].style = "error"
            /\ ~isProcessing' ]_vars

\* ClearCart was asked for after an add-to-cart in the same run: the run
\* ended on "Unknown tool" and the cart still holds the product
C23_Witness ==
    \E s \in Slots :
        /\ frames[s].dispatchOk = "failed"
        /\ frames[s].decision[1].action.tool = "ClearCart"
        /\ frames[s].dispatchError[1] = [msg |-> "Unknown tool", arg |-> "ClearCart"]
        /\ frames[s].pc = "returned"
        /\ frames[s].done = <<"AddToCart">>
        /\ Len(cart.items) = 1

\* C24 (under SpecDispatch): every operation that the documentation lists
\* as available to the loop, clear-cart, cart-update and
\* move-wishlist-to-cart among them, is routed by the dispatch to its
\* backend handler when a decision names it, and is not rejected as an
\* unknown operation.
C24_DocumentedOperationsRouted ==
    LET handlerOf == [ tool \in {"ClearCart", "UpdateCartQuantity", "MoveWishlistToCart"} |->
                         IF tool = "ClearCart" THEN "clearCart"
                         ELSE IF tool = "UpdateCartQuantity" THEN "updateCartQuantity"
                         ELSE "moveWishlistToCart" ]
    IN  (dispatched # None /\ dispatched[1].tool \in DOMAIN handlerOf) =>
            LET rejected(msg) == /\ dispatched[1].error # None
                                 /\ dispatched[1].error[1].msg = msg
            IN  /\ ~rejected("Unknown tool")
                /\ ~rejected("Invalid parameters format") =>
                       dispatched[1].handlers = << handlerOf[dispatched[1].tool] >>

\* the cart is the empty cart that a view-cart call reports
ViewCartReportsEmpty(st) ==
    viewCart(st).result = [items |-> <<>>, total |-> 0]

\* C25 (under SpecCheckout): a checkout dispatched through the loop that
\* succeeds adds exactly one order to the order history, with the items and
\* the total of the cart just before it, and from then on a view-cart
\* reports zero items and total 0 until the next add-to-cart.
C25_CheckoutEmptiesCartIntoOneOrder ==
    [][ LET after == [cart |-> cart', wishlist |-> wishlist', orders |-> orders'] IN
        /\ \A s \in Slots :
              DispatchedOk(s, {"Checkout"}) =>
                /\ Len(cart.items) > 0
                /\ orders' = Append(orders, [items |-> cart.items, total |-> cart.total,
                                             status |-> "confirmed"])
                /\ ViewCartReportsEmpty(after)
        /\ (ViewCartReportsEmpty(session) /\ \A s \in Slots : ~DispatchedOk(s, {"AddToCart"}))
              => ViewCartReportsEmpty(after) ]_vars

\* a cart of two lines was checked out and then viewed in the same run: it
\* is empty and the one order holds both lines and their total
C25_Witness ==
    \E s \in Slots :
        /\ frames[s].done = <<"AddToCart", "AddToCart", "Checkout", "ViewCart">>
        /\ ViewCartReportsEmpty(session)
        /\ Len(orders) = 1
        /\ Len(orders[1].items) = 2
        /\ orders[1].total = 8

\* the first decision of the run in slot s was a continuing search that
\* returned several products, on an empty transcript and without a product
\* context, and the second Decision Function call is pending
AfterSearchOfSeveral(s) ==
    LET frame == frames[s] IN
    /\ frame.pc = "awaitDecision"
    /\ frame.dfCalls = 2
    /\ frame.pre[1].history = <<>>
    /\ frame.pre[1].context = None
    /\ frame.decision[1].action.tool = "SearchProducts"
    /\ frame.decision[1].should_continue
    /\ frame.dispatchOk = "ok"
    /\ LET params == frame.decision[1].action.parameters.parsed[1]
       IN  Len(searchProducts(session, params.searchTerm, params.filters).result) > 1

\* the answer this step brought is {should_continue: false, final_response}
StopsWithFinal(s) ==
    /\ frames'[s].decision # frames[s].decision
    /\ ~frames'[s].decision[1].should_continue
    /\ frames'[s].decision[1].final_response \notin {None, Some("")}

\* C26 (under SpecSearch): starting from an empty transcript and no
\* product context, a run whose first decision is a continuing search that
\* returns several products and whose second decision is
\* {should_continue: false, final_response} makes exactly two Decision
\* Function calls and one dispatch, returns one response made of the
\* formatted search results followed by the final response text, and
\* leaves the product context unset.
C26_SearchThenFinalAnswer ==
    [][ \A s \in Slots :
          (AfterSearchOfSeveral(s) /\ StopsWithFinal(s)) =>
            LET first == frames[s].decision[1]
                second == frames'[s].decision[1]
            IN  /\ frames'[s].pc = "returned"
                /\ frames'[s].dfCalls = 2
                /\ frames'[s].dispatches = 1
                /\ frames'[s].handlerCalls = 1
                /\ frames'[s].lastToolResults = << [block |-> "SearchProducts"] >>
                /\ frames'[s].response =
                       Some([style |-> "final",
                             text |-> Some(Text("", second.final_response[1], "")),
                             tools |-> frames'[s].lastToolResults])
                /\ currentProductContext = None
                /\ currentProductContext' = None
                /\ conversationHistory' =
                       << UserEntry(frames[s].userRequest, None),
                          ThoughtEntry(first.thought),
                          ToolEntry("SearchProducts", first.action.parameters),
                          ThoughtEntry(second.thought) >> ]_vars

\* "find usb" on a fresh session: the search hit both cables, the second
\* answer ended the run with "Found 2 cables"
C26_Witness ==
    \E s \in Slots :
        /\ frames[s].pc = "returned"
        /\ frames[s].ended = "final"
        /\ frames[s].pre[1].history = <<>>
        /\ frames[s].done = <<"SearchProducts">>
        /\ frames[s].dfCalls = 2
        /\ Len(conversationHistory) = 4
        /\ conversationHistory[3].kind = "Tool" /\ conversationHistory[3].parameters = "usb"
        /\ frames[s].decision[1].final_response = Some("Found 2 cables")
        /\ frames[s].response[1].text = Some(Text("", "Found 2 cables", ""))
        /\ Len(frames[s].response[1].tools) = 1
        /\ currentProductContext = None

\* C27: at the first Decision Function call of every run that is not a
\* quick command, the transcript has at most maxHistoryLength entries, its
\* last entry is the user entry of the current request, and it is exactly
\* the most recent part of the transcript as it was before the trim, in
\* the same order: only the oldest entries were dropped.
C27_TranscriptAtFirstCall ==
    \A s \in Slots :
        (frames[s].call # None /\ frames[s].dfCalls = 1) =>
            LET history == frames[s].call[1].history
                entry == history[Len(history)]
                untrimmed == Append(frames[s].pre[1].history, entry)
                dropped == Len(untrimmed) - Len(history)
            IN  /\ Len(history) >= 1
                /\ Len(history) <= maxHistoryLength
                /\ entry.kind = "User"
                /\ entry.text = frames[s].userRequest
                /\ entry.context \in {None, frames[s].pre[1].context}
                /\ dropped >= 0
                /\ dropped > 0 => Len(history) = maxHistoryLength
                /\ \A i \in 1..Len(history) : history[i] = untrimmed[dropped + i]
                /\ frames[s].pc = "awaitDecision" /\ frames[s].iteration = 1

\* the second request came on a transcript of 21 entries: two entries were
\* dropped from the old end, and the first call sees 20, the last one being
\* the new user entry
C27_Witness ==
    \E s \in Slots :
        /\ frames[s].call # None
        /\ frames[s].dfCalls = 1
        /\ Len(frames[s].pre[1].history) = maxHistoryLength + 1
        /\ Len(frames[s].call[1].history) = maxHistoryLength
        /\ frames[s].call[1].history[1] = frames[s].pre[1].history[3]
        /\ frames[s].call[1].history[maxHistoryLength].kind = "User"
        /\ conversationHistory = frames[s].call[1].history

\* where processRequest stands with the attempts of one request
AttemptsInOrder(frame) ==
    /\ frame.invoked <= maxRetries
    /\ frame.attempts <= maxRetries
    /\ frame.pc \in {"awaitDecision", "returned"} =>
          /\ frame.invoked = frame.attempts + 1
          /\ frame.delay = 0
    /\ frame.pc = "delay" =>
          /\ frame.attempts = frame.invoked
          /\ frame.attempts < maxRetries
          /\ frame.delay = retryDelay * frame.attempts
    /\ frame.pc = "failed" =>
          /\ frame.attempts = maxRetries
          /\ frame.invoked = maxRetries
          /\ frame.delay = 0

\* C28 (under SpecRetry): for one accepted request processRequest calls
\* agent.run at most maxRetries times; it calls run again only after the
\* previous attempt threw, waits retryDelay times the number of failed
\* attempts before each new call, does not wait after the last attempt, and
\* makes no further attempt once an attempt has returned.
C28_RetriesWithBackoff ==
    /\ [](\A s \in Slots : AttemptsInOrder(frames[s]))
    /\ [][ \A s \in Slots :
              /\ (frames'[s].invoked > 1 /\ frames'[s].invoked # frames[s].invoked) =>
                    /\ frames[s].pc = "delay"
                    /\ frames[s].attempts = frames[s].invoked
                    /\ frames[s].delay = retryDelay * frames[s].attempts
                    /\ frames'[s].invoked = frames[s].invoked + 1
                    /\ frames'[s].attempts = frames[s].attempts
                    /\ frames'[s].userRequest = frames[s].userRequest
                    /\ runs' = runs
              /\ (frames'[s].pc = "delay" /\ frames[s].pc # "delay") =>
                    /\ frames[s].pc = "awaitDecision"
                    /\ frames'[s].attempts = frames[s].attempts + 1
              /\ (frames[s].pc \in {"returned", "failed"} /\ frames'[s] # frames[s]) =>
                    /\ runs' = runs + 1
                    /\ frames'[s].invoked = 1
                    /\ frames'[s].attempts = 0 ]_vars

\* run threw three times for the same request: processRequest waited
\* before the second and the third call and gave up after the third
C28_Witness ==
    \E s \in Slots :
        /\ frames[s].pc = "failed"
        /\ frames[s].invoked = maxRetries
        /\ frames[s].attempts = maxRetries
        /\ frames[s].delay = 0
        /\ Len(conversationHistory) >= maxRetries
        /\ ~isProcessing

\* the Decision Function returned an answer to the run in slot s
DecisionReturnedTo(s) ==
    /\ frames[s].pc = "awaitDecision"
    /\ answered' = answered + 1
    /\ frames'[s].ended # "decisionFailed"

\* C29 (under SpecLookup): within one run the transcript grows only by
\* appends, in the order of the iterations: one reasoning entry for every
\* answer of the Decision Function, the terminating one included; one
\* operation record for every dispatch that succeeded, right after the
\* reasoning entry of its iteration; no operation record for a dispatch
\* that failed; and nothing else.
C29_TranscriptGrowsInIterationOrder ==
    [][ \A s \in Slots :
          /\ DecisionReturnedTo(s) =>
                LET response == frames'[s].decision[1]
                    reasoning == << ThoughtEntry(response.thought) >>
                    record == IF DispatchedBy(s) /\ frames'[s].dispatchOk = "ok"
                              THEN << ToolEntry(response.action.tool,
                                                response.action.parameters) >>
                              ELSE <<>>
                IN  conversationHistory' = conversationHistory \o reasoning \o record
          /\ (frames[s].pc = "awaitDecision" /\ ~DecisionReturnedTo(s)) =>
                conversationHistory' = conversationHistory ]_vars

\* C30 (under SpecLookup): the product context changes only through a
\* details lookup that succeeds, a search that returns exactly one product,
\* or an explicit reset; history trimming, context enrichment, the other
\* quick commands, every other dispatched operation and every dispatch that
\* ends in failure, a details lookup for an unknown id included, leave it
\* as it was.
C30_ContextChangesOnlyByLookupOrReset ==
    [][ /\ currentProductContext' # currentProductContext =>
              \E s \in Slots :
                  \/ /\ DispatchedOk(s, {"GetProductDetails"})
                     /\ frames'[s].ended # "toolFailed"
                     /\ LET params == frames'[s].decision[1].action.parameters.parsed[1]
                        IN  /\ Known(params.productId)
                            /\ currentProductContext' =
                                   contextOf(productDetails[params.productId[1]])
                  \/ /\ DispatchedOk(s, {"SearchProducts"})
                     /\ LET params == frames'[s].decision[1].action.parameters.parsed[1]
                            results == searchProducts(session, params.searchTerm,
                                                      params.filters).result
                        IN  /\ Len(results) = 1
                            /\ currentProductContext' = contextOf(results[1])
                  \/ /\ runs' = runs + 1
                     /\ frames'[s].ended = "quick"
                     /\ lowerRequestOf[frames'[s].userRequest] \in resetCommands
                     /\ currentProductContext' = None
        /\ \A s \in Slots :
              (DispatchedBy(s) /\ frames'[s].ended = "toolFailed") =>
                  currentProductContext' = currentProductContext ]_vars

\* C31 (under SpecOverlap): the transcript is emptied only by the reset
\* command, it is not empty when a run that is not a quick command comes
\* back, and it never holds more than maxHistoryLength + 2 * maxIterations
\* entries.
C31_TranscriptEmptiedOnlyByResetAndBounded ==
    /\ [](Len(conversationHistory) <= maxHistoryLength + 2 * maxIterations)
    /\ [][ /\ (conversationHistory # <<>> /\ conversationHistory' = <<>>) =>
                (\E t \in Slots :
                    /\ runs' = runs + 1
                    /\ frames'[t] # frames[t]
                    /\ frames'[t].ended = "quick"
                    /\ lowerRequestOf[frames'[t].userRequest] \in resetCommands)
            /\ \A s \in Slots :
                  (/\ frames[s].pc = "awaitDecision"
                   /\ frames'[s].pc \in {"returned", "failed", "delay"}) =>
                      conversationHistory' # <<>> ]_vars

\* C32: the response a run returns holds the formatted output of every
\* operation the run dispatched successfully, in the order of the
\* dispatches.
C32_ResponseShowsEveryDispatch ==
    \A s \in Slots :
        (frames[s].pc = "returned" /\ frames[s].ended # "quick") =>
            /\ Len(frames[s].response[1].tools) = Len(frames[s].done)
            /\ \A i \in 1..Len(frames[s].done) :
                  frames[s].response[1].tools[i] =
                      formatToolResult(frames[s].done[i], None)

\* C33 (under SpecQuantity): every line of the cart has a quantity of at
\* least 1.
C33_CartQuantitiesPositive ==
    \A i \in 1..Len(cart.items) : cart.items[i].quantity >= 1

\* C34 (under SpecBackend): after every cart operation the total of the
\* cart is the sum of price * quantity over its lines, and 0 when the cart
\* has no line.
C34_TotalIsSumOfLines ==
    /\ cart.total = reduceTotal(cart.items)
    /\ cart.items = <<>> => cart.total = 0

\* a line of two was added for each product and the first was removed:
\* the total is the price of the two that are left
C34_Witness ==
    /\ dispatched # None
    /\ dispatched[1].call.name = "removeFromCart"
    /\ dispatched[1].ok
    /\ Len(cart.items) = 1
    /\ cart.items[1].productId = "USB002"
    /\ cart.items[1].quantity = 2
    /\ cart.total = 2 * productDetails["USB002"].price

\* the backend call made by this step, in SpecBackend
Called(names) ==
    /\ dispatched' # dispatched
    /\ dispatched'[1].call.name \in names

PurchaseDispatched ==
    \E s \in Slots :
        /\ DispatchedBy(s)
        /\ frames'[s].decision[1].action.tool = "PurchaseProduct"

\* C37 as stated (under SpecPurchase): a direct purchase, successful or
\* not, leaves the cart and the wishlist unchanged, and a cart that had
\* lines is left without any by a checkout only.
C37_OnlyCheckoutEmptiesCart ==
    [][ /\ PurchaseDispatched => (cart' = cart /\ wishlist' = wishlist)
        /\ (cart.items # <<>> /\ cart'.items = <<>>) =>
              \E s \in Slots : DispatchedOk(s, {"Checkout"}) ]_vars

\* C37 amended (under SpecPurchase): a direct purchase, successful or not,
\* leaves the cart and the wishlist unchanged; of the operations that
\* place an order only checkout changes the cart, and it empties it.
C37_PurchaseKeepsCartAndWishlist ==
    [][ /\ PurchaseDispatched => (cart' = cart /\ wishlist' = wishlist)
        /\ (Len(orders') > Len(orders) /\ cart' # cart) =>
              /\ \E s \in Slots : DispatchedOk(s, {"Checkout"})
              /\ cart' = [items |-> <<>>, total |-> 0] ]_vars

\* a purchase went through while the cart held one product and the
\* wishlist another: the order is recorded, both are as they were
C37_Witness ==
    \E s \in Slots :
        /\ frames[s].done = << "AddToCart", "AddToWishlist", "PurchaseProduct" >>
        /\ frames[s].dispatchOk = "ok"
        /\ Len(orders) = 1
        /\ Len(cart.items) = 1
        /\ cart.items[1].productId = "USB001"
        /\ wishlist.items = << "USB002" >>

\* C38 (under SpecLive): a request that processRequest has accepted, at
\* whatever point of its attempts, comes to its end with the busy flag
\* cleared, by an attempt that returns or by the last of maxRetries
\* attempts that throw; and whenever the flag is clear a request can be
\* accepted.
C38_BusyFlagEventuallyCleared ==
    /\ \A s \in Slots :
          (frames[s].pc \in {"awaitDecision", "delay"}) ~>
              (frames[s].pc \in {"returned", "failed"} /\ ~isProcessing)
    /\ isProcessing ~> ~isProcessing
    /\ []((agentReady /\ ~isProcessing /\ runs < MaxRuns) =>
            ENABLED (\E input \in LiveLines : LineAccepted(input)))

\* the first request went through the loop and cleared the flag, the
\* second was accepted after it and gave up after maxRetries attempts that
\* threw: the flag is clear again
C38_Witness ==
    \E s \in Slots :
        /\ runs = 2
        /\ frames[s].pc = "failed"
        /\ frames[s].attempts = maxRetries
        /\ frames[s].invoked = maxRetries
        /\ frames[s].pre[1].history # <<>>
        /\ ~isProcessing

\* C39 (under SpecLookup): a product context that is set names a product
\* of the catalog, and it is unset again by nothing but an explicit reset.
C39_ContextNamesCatalogProduct ==
    /\ [](currentProductContext # None =>
            /\ currentProductContext[1].productId \in ProductIds
            /\ currentProductContext[1].title =
                   productDetails[currentProductContext[1].productId].title)
    /\ [][ (currentProductContext # None /\ currentProductContext' = None) =>
              \E s \in Slots :
                  /\ runs' = runs + 1
                  /\ frames'[s].ended = "quick"
                  /\ lowerRequestOf[frames'[s].userRequest] \in resetCommands ]_vars
====
